---- MODULE Spec2Model ----
(***************************************************************************)
(* Model of the agent-based calculator of src/CalculadoraAgentes.py:       *)
(* MessageBroker, the five OperationAgents, IOAgent (tokenize, the         *)
(* parenthesis pass, the three precedence passes, request_operation) and   *)
(* CalculatorModel (calculate, get_statistics, reset_statistics).          *)
(*                                                                         *)
(* Strings are sequences of one-character strings.  Python floats are      *)
(* modelled by exact rationals n/d; a value the model does not compute     *)
(* exactly (a power with a non-integer exponent, a magnitude beyond        *)
(* ExactLimit) is kept as the term of the operation that produced it,      *)
(* with the signs it may have and the binary exponents its magnitude lies  *)
(* between, so two such values are equal only when they were computed by   *)
(* the same operations on the same operands.  The rational is the value    *)
(* before rounding: it differs from the float by the rounding error,       *)
(* which the inputs checked never turn into a different comparison with    *)
(* zero.  pow raises OverflowError beyond the range of a double; an        *)
(* operation whose exception depends on a sign or a magnitude the model    *)
(* cannot tell ends "Unmodelled", which no input checked reaches.          *)
(* A Python exception is a return record with ok = FALSE and the           *)
(* exception in err.                                                       *)
(***************************************************************************)
EXTENDS Integers, Sequences, FiniteSets, TLC

VARIABLES
    pc,                  \* the caller: "idle" (no call yet), "done" (calculate has
                         \* returned or raised), "reset" (reset_statistics has returned)
    entry,               \* the expression the caller passes to calculate
    current_expression,  \* IOAgent.current_expression
    outcome,             \* what the last calculate gave its caller: a value or an exception
    operations_performed,\* OperationAgent.operations_performed, per agent id
    message_queue,       \* MessageBroker.message_queue
    message_history,     \* MessageBroker.message_history
    log_messages,        \* CalculatorModel.log_messages
    before,              \* the counters the caller read before its last calculate
    previous,            \* whether the last two calls were the same expression, both
                         \* returning, and what the first of them added to the counters
    asked,               \* the operator and operands of a single request_operation
    sent,                \* how many messages a client of the broker has sent
    delivered,           \* what each get_messages_for gave its caller, in call order
    stack                \* the calls of evaluate_expression in progress, innermost
                         \* last: each one's tokens, the statement it is at, the loop
                         \* index i and the group it is evaluating

vars == <<pc, entry, current_expression, outcome, operations_performed,
          message_queue, message_history, log_messages, before, previous,
          asked, sent, delivered, stack>>

-----------------------------------------------------------------------------
(* Bounds of the model. *)

\* Longest input built from arbitrary lexemes (numerals, operators, parentheses).
MaxLen == 4
\* Most binary operators in a generated well-formed expression.
MaxOps == 2
\* Longest input built from arbitrary characters (digits, '.', ' ', letters, ...).
MaxChars == 4
\* Largest numerator or denominator the model computes exactly.
ExactLimit == 10000
\* A session stops calling calculate once the counters add up to this.
MaxPerformed == 4

-----------------------------------------------------------------------------
(* Numbers: the float values of the program. *)

Abs(x) == IF x < 0 THEN -x ELSE x

Sign(x) == IF x < 0 THEN -1 ELSE IF x = 0 THEN 0 ELSE 1

RECURSIVE GCD(_, _)
GCD(a, b) == IF b = 0 THEN a ELSE GCD(b, a % b)

\* The number of binary digits of q >= 0: 2^(Bits(q)-1) <= q < 2^Bits(q).
RECURSIVE Bits(_)
Bits(q) == IF q = 0 THEN 0 ELSE 1 + Bits(q \div 2)

\* A value other than zero lies between 2^lo and 2^hi in magnitude.  For n/d
\* with d > 0 these are the exponents around its whole part, or around the
\* whole part of its inverse.
LoOf(n, d) ==
    IF n = 0 THEN 0
    ELSE IF Abs(n) >= d THEN Bits(Abs(n) \div d) - 1
    ELSE 0 - Bits(d \div Abs(n))

HiOf(n, d) ==
    IF n = 0 THEN 0
    ELSE IF Abs(n) >= d THEN Bits(Abs(n) \div d)
    ELSE 2 - Bits(d \div Abs(n))

\* n/d with d > 0, divided through by g.  sgn is the set of the signs the value
\* may have: one sign for a value computed exactly.
Lowest(n, d, g) ==
    [kind |-> "rat", n |-> n \div g, d |-> d \div g, sgn |-> {Sign(n)},
     lo |-> LoOf(n, d), hi |-> HiOf(n, d), t |-> <<>>]

\* A value computed exactly: the rational n/d in lowest terms, d > 0.
Rat(n, d) ==
    IF d < 0 THEN Lowest(-n, -d, GCD(Abs(n), Abs(d)))
    ELSE Lowest(n, d, GCD(Abs(n), Abs(d)))

\* A real value the model does not compute exactly: the term op(a, b), the signs
\* it may have and the exponents its magnitude lies between.
Inexact(sgn, lo, hi, op, a, b) ==
    [kind |-> "irr", n |-> 0, d |-> 1, sgn |-> sgn, lo |-> lo, hi |-> hi,
     t |-> <<op, a, b>>]

\* The complex result of a negative base raised to a non-integer exponent: it
\* has no sign.
Complex(a, b) ==
    [kind |-> "cx", n |-> 0, d |-> 1, sgn |-> {}, lo |-> 0, hi |-> 0,
     t |-> <<"**", a, b>>]

IsExact(v) == v.kind = "rat"

IsInt(v) == v.kind = "rat" /\ v.d = 1

\* b == 0, and b != 0, where the model can tell.
IsZero(v) == v.sgn = {0}

NonZero(v) == 0 \notin v.sgn

Max(x, y) == IF x >= y THEN x ELSE y

\* The exact result r of op(a, b), or the term when r leaves the range
\* computed exactly.
Within(r, op, a, b) ==
    IF Abs(r.n) <= ExactLimit /\ r.d <= ExactLimit THEN r
    ELSE Inexact(r.sgn, r.lo, r.hi, op, a, b)

Exact(n, d, op, a, b) == Within(Rat(n, d), op, a, b)

\* A function result: a returned value, or a raised exception.
Returned(v) == [ok |-> TRUE, v |-> v, err |-> "none"]

Raised(e) == [ok |-> FALSE, v |-> Rat(0, 1), err |-> e]

\* The float op(a, b) of a real result with signs sgn and a magnitude between
\* 2^lo and 2^hi.  A double is finite below 2^1024, is zero below 2^-1075, and
\* keeps its precision from 2^-1022 on; the exponents are taken a few binary
\* digits inside these, for the rounding of the operands.  pow raises where
\* the result is beyond the doubles; where the exponents do not decide, the
\* operation is not modelled.
Ranged(sgn, lo, hi, op, a, b) ==
    IF 0 \notin sgn /\ hi <= -1085 THEN Returned(Rat(0, 1))
    ELSE IF (0 \in sgn \/ lo >= -1010) /\ hi <= 1015
    THEN Returned(Inexact(sgn, lo, hi, op, a, b))
    ELSE IF op = "**" /\ 0 \notin sgn /\ lo >= 1032 THEN Raised("OverflowError")
    ELSE Raised("Unmodelled")

SignOfProduct(a, b) == {x * y : x \in a.sgn, y \in b.sgn}

Negated(b) == [b EXCEPT !.sgn = {-x : x \in @}, !.n = -@]

\* a + c for the term op(a, b), where a or c is not exact: the larger operand
\* decides the sign when it is larger by a binary digit, and nothing does when
\* the operands may cancel.
InexactSum(op, a, b, c) ==
    IF IsZero(a) THEN Returned(c)
    ELSE IF IsZero(c) THEN Returned(a)
    ELSE IF a.sgn = c.sgn /\ NonZero(a)
    THEN Ranged(a.sgn, Max(a.lo, c.lo), Max(a.hi, c.hi) + 1, op, a, b)
    ELSE IF NonZero(a) /\ a.lo > c.hi
    THEN Ranged(a.sgn, a.lo - 1, a.hi + 1, op, a, b)
    ELSE IF NonZero(c) /\ c.lo > a.hi
    THEN Ranged(c.sgn, c.lo - 1, c.hi + 1, op, a, b)
    ELSE Ranged({-1, 0, 1}, 0, Max(a.hi, c.hi) + 1, op, a, b)

\* operator.add
OpAdd(a, b) ==
    IF IsExact(a) /\ IsExact(b)
    THEN Returned(Exact(a.n * b.d + b.n * a.d, a.d * b.d, "+", a, b))
    ELSE InexactSum("+", a, b, b)

\* operator.sub
OpSub(a, b) ==
    IF IsExact(a) /\ IsExact(b)
    THEN Returned(Exact(a.n * b.d - b.n * a.d, a.d * b.d, "-", a, b))
    ELSE InexactSum("-", a, b, Negated(b))

\* operator.mul
OpMul(a, b) ==
    IF IsExact(a) /\ IsExact(b)
    THEN Returned(Exact(a.n * b.n, a.d * b.d, "*", a, b))
    ELSE IF IsZero(a) \/ IsZero(b) THEN Returned(Rat(0, 1))
    ELSE Ranged(SignOfProduct(a, b), a.lo + b.lo, a.hi + b.hi, "*", a, b)

\* a / b for b # 0
Quotient(a, b) ==
    IF IsExact(a) /\ IsExact(b)
    THEN Returned(Exact(a.n * b.d, a.d * b.n, "/", a, b))
    ELSE IF IsZero(a) THEN Returned(Rat(0, 1))
    ELSE Ranged(SignOfProduct(a, b), a.lo - b.hi, a.hi - b.lo, "/", a, b)

\* safe_div returning 0 for a zero divisor instead of raising.
SafeDivZero(a, b) ==
    IF IsZero(b) THEN Returned(Rat(0, 1))
    ELSE IF NonZero(b) THEN Quotient(a, b)
    ELSE Raised("Unmodelled")

\* safe_div: raises ValueError when b == 0, else a / b
safe_div(a, b) ==
    IF IsZero(b) THEN Raised("ValueError: division by zero")
    ELSE IF NonZero(b) THEN Quotient(a, b)
    ELSE Raised("Unmodelled")

\* The signs of a ** k for an integer k.
SignOfIntPow(a, k) == IF k % 2 = 0 THEN {1} ELSE a.sgn

\* a ** k for a # 0 and an integer k # 0, from the exponents of a.
PowerInRange(a, b, k) ==
    IF k > 0 THEN Ranged(SignOfIntPow(a, k), k * a.lo, k * a.hi, "**", a, b)
    ELSE Ranged(SignOfIntPow(a, k), k * a.hi, k * a.lo + 1, "**", a, b)

\* base ** k for an integer k > 0, from the exponents of the power p of base
\* that was computed exactly: base ** k is p ** (k \div j) * base ** (k % j),
\* where p is base ** j.
PowerByChunks(p, j, base, k, a, b) ==
    Ranged(SignOfIntPow(a, k),
           (k \div j) * p.lo + (k % j) * base.lo,
           (k \div j) * p.hi + (k % j) * base.hi, "**", a, b)

\* base ** k for exact base # 0 and an integer k > 0, where p = base ** j was
\* the power computed so far: exactly, while it stays in the range computed
\* exactly.
RECURSIVE IntPow(_, _, _, _, _, _)
IntPow(p, j, base, k, a, b) ==
    IF j = k THEN Returned(p)
    ELSE IF Abs(p.n * base.n) > ExactLimit \/ p.d * base.d > ExactLimit
    THEN IF j = 0 THEN PowerInRange(a, b, b.n)
         ELSE PowerByChunks(p, j, base, k, a, b)
    ELSE IntPow(Rat(p.n * base.n, p.d * base.d), j + 1, base, k, a, b)

\* The base whose Abs(b)-th power a ** b is, for exact a # 0 and an integer b.
PowerBase(a, b) == IF b.n < 0 THEN Rat(a.d, a.n) ELSE a

RECURSIVE Pow2(_)
Pow2(k) == IF k <= 0 THEN 1 ELSE 2 * Pow2(k - 1)

\* The exponent of 2 that bounds a ** b and its inverse, for a > 0 and an
\* exact b that is no integer: Abs(b) rounded up, times the exponent of a.
FractionalBound(a, b) ==
    ((Abs(b.n) + b.d - 1) \div b.d) * Max(Abs(a.lo), Abs(a.hi))

\* The same for a b that is not exact and is below 2^b.hi.
InexactBound(a, b) == Pow2(b.hi) * Max(Abs(a.lo), Abs(a.hi))

\* a ** b for a # 0 and an exact b that is no integer: a real for a > 0, a
\* complex for a < 0.
FractionalPower(a, b, m) ==
    IF a.sgn = {1} THEN Ranged({1}, 0 - m, m, "**", a, b)
    ELSE IF m <= 1010 THEN Returned(Complex(a, b))
    ELSE Raised("Unmodelled")

\* a ** b for a > 0 and a b # 0 that is not exact: within the doubles for a
\* small b, beyond them or zero for a large b and an a away from 1.
InexactPower(a, b) ==
    IF a.sgn # {1} \/ ~NonZero(b) THEN Raised("Unmodelled")
    ELSE IF b.hi <= 10 THEN Ranged({1}, 0 - InexactBound(a, b), InexactBound(a, b), "**", a, b)
    ELSE IF b.lo >= 11 /\ ((a.lo >= 1 /\ b.sgn = {1}) \/ (a.hi <= -1 /\ b.sgn = {-1}))
    THEN Raised("OverflowError")
    ELSE IF b.lo >= 11 /\ ((a.lo >= 1 /\ b.sgn = {-1}) \/ (a.hi <= -1 /\ b.sgn = {1}))
    THEN Returned(Rat(0, 1))
    ELSE Raised("Unmodelled")

\* operator.pow on two floats
OpPow(a, b) ==
    IF IsZero(b) THEN Returned(Rat(1, 1))
    ELSE IF IsExact(a) /\ a.n = a.d THEN Returned(Rat(1, 1))
    ELSE IF ~IsExact(b) THEN InexactPower(a, b)
    ELSE IF IsZero(a)
    THEN IF b.sgn = {-1} THEN Raised("ZeroDivisionError") ELSE Returned(Rat(0, 1))
    ELSE IF ~NonZero(a) THEN Raised("Unmodelled")
    ELSE IF IsInt(b)
    THEN IF IsExact(a) /\ a.n = -a.d
         THEN Returned(Rat(IF b.n % 2 = 0 THEN 1 ELSE -1, 1))
         ELSE IF IsExact(a)
         THEN IntPow(Rat(1, 1), 0, PowerBase(a, b), Abs(b.n), a, b)
         ELSE PowerInRange(a, b, b.n)
    ELSE FractionalPower(a, b, FractionalBound(a, b))

-----------------------------------------------------------------------------
(* Strings and tokens. *)

Digits == {"0", "1", "2", "3", "4", "5", "6", "7", "8", "9"}

DigitValue(c) ==
    CASE c = "0" -> 0 [] c = "1" -> 1 [] c = "2" -> 2 [] c = "3" -> 3 [] c = "4" -> 4
      [] c = "5" -> 5 [] c = "6" -> 6 [] c = "7" -> 7 [] c = "8" -> 8 [] c = "9" -> 9

\* str.replace(old, ''): the string without its occurrences of the character old.
RECURSIVE Remove(_, _)
Remove(s, old) ==
    IF s = <<>> THEN <<>>
    ELSE IF Head(s) = old THEN Remove(Tail(s), old)
    ELSE <<Head(s)>> \o Remove(Tail(s), old)

\* str.isdigit(): not empty, and every character a digit.
IsDigitString(s) == s # <<>> /\ \A i \in 1..Len(s) : s[i] \in Digits

\* The first position from p on that holds no digit (Len(s) + 1 when there is none).
RECURSIVE DigitsEnd(_, _)
DigitsEnd(s, p) ==
    IF p <= Len(s) /\ s[p] \in Digits THEN DigitsEnd(s, p + 1) ELSE p

\* The end of the match of \.?\d* from position e.
FractionEnd(s, e) ==
    IF e <= Len(s) /\ s[e] = "." THEN DigitsEnd(s, e + 1) ELSE e

\* The length of the match of  \d+\.?\d*|\+|\-|\*\*|\*|\/|\(|\)  at position p,
\* 0 when no alternative matches there.
MatchAt(s, p) ==
    IF s[p] \in Digits THEN FractionEnd(s, DigitsEnd(s, p + 1)) - p
    ELSE IF s[p] = "+" \/ s[p] = "-" THEN 1
    ELSE IF s[p] = "*" THEN IF p < Len(s) /\ s[p + 1] = "*" THEN 2 ELSE 1
    ELSE IF s[p] = "/" \/ s[p] = "(" \/ s[p] = ")" THEN 1
    ELSE 0

RECURSIVE FindAll(_, _)

\* The matches from p on, given the length m of the match at p.
FindFrom(s, p, m) ==
    IF m = 0 THEN FindAll(s, p + 1)
    ELSE <<SubSeq(s, p, p + m - 1)>> \o FindAll(s, p + m)

\* re.findall(pattern, s) from position p: the matches left to right, the
\* characters no alternative matches skipped one at a time.
FindAll(s, p) == IF p > Len(s) THEN <<>> ELSE FindFrom(s, p, MatchAt(s, p))

\* FoldPosition without its look at the token before the '-'.
FoldPositionAnywhere(tokens, i) == tokens[i] = <<"-">>

\* The tokens before which tokenize reads a '-' as a sign.
SignContext == {<<"(">>, <<"+">>, <<"-">>, <<"*">>, <<"/">>, <<"*", "*">>}

\* FoldPosition without the '-' that opens the sequence.
FoldPositionAfterOperator(tokens, i) ==
    tokens[i] = <<"-">> /\ i > 1 /\ tokens[i - 1] \in SignContext

\* The condition of tokenize's fold: the '-' at i opens the sequence or follows
\* an operator or '('.
FoldPosition(tokens, i) ==
    tokens[i] = <<"-">> /\ (i = 1 \/ tokens[i - 1] \in SignContext)

\* tokenize's while loop from index i (1-based).
RECURSIVE FoldFrom(_, _)
FoldFrom(tokens, i) ==
    IF i > Len(tokens) THEN <<>>
    ELSE IF /\ FoldPosition(tokens, i)
            /\ i + 1 <= Len(tokens)
            /\ IsDigitString(Remove(tokens[i + 1], "."))
         THEN <<(<<"-">> \o tokens[i + 1])>> \o FoldFrom(tokens, i + 2)
         ELSE <<tokens[i]>> \o FoldFrom(tokens, i + 1)

\* IOAgent.tokenize
tokenize(expression) == FoldFrom(FindAll(expression, 1), 1)

\* A token of the evaluator: the text of a token of tokenize, or str(result).
Txt(s) == [k |-> "txt", s |-> s, v |-> Rat(0, 1)]

Str(v) == [k |-> "str", s |-> <<>>, v |-> v]

RECURSIVE Pow10(_)
Pow10(k) == IF k = 0 THEN 1 ELSE 10 * Pow10(k - 1)

\* The number a string of digits writes.
RECURSIVE DigitsValue(_, _)
DigitsValue(s, acc) ==
    IF s = <<>> THEN acc ELSE DigitsValue(Tail(s), 10 * acc + DigitValue(Head(s)))

\* float(s) for an unsigned s whose leading digits end before position e:
\* digits, then optionally '.' and digits.
ParseFrom(s, e) ==
    IF e = 1 THEN Raised("ValueError: could not convert string to float")
    ELSE IF e > Len(s) THEN Returned(Rat(DigitsValue(s, 0), 1))
    ELSE IF s[e] = "." /\ DigitsEnd(s, e + 1) > Len(s)
    THEN Returned(Rat(DigitsValue(Remove(s, "."), 0), Pow10(Len(s) - e)))
    ELSE Raised("ValueError: could not convert string to float")

ParseUnsigned(s) == ParseFrom(s, DigitsEnd(s, 1))

\* The parse u of an unsigned string, negated.
Minus(u) == IF u.ok THEN Returned(Rat(-u.v.n, u.v.d)) ELSE u

\* float(token): the number a token writes; ValueError for an operator, a
\* parenthesis and the text of a complex number.
Float(tok) ==
    IF tok.k = "str"
    THEN IF tok.v.kind = "cx"
         THEN Raised("ValueError: could not convert string to float")
         ELSE Returned(tok.v)
    ELSE IF tok.s # <<>> /\ Head(tok.s) = "-" THEN Minus(ParseUnsigned(Tail(tok.s)))
    ELSE IF tok.s = <<>> THEN Raised("ValueError: could not convert string to float")
    ELSE ParseUnsigned(tok.s)

-----------------------------------------------------------------------------
(* The broker, the log and the operation agents.  A function of the program  *)
(* that changes state takes the state w = [ops, queue, history, logs] and    *)
(* returns [ok, ret, err, w]: its return value or its exception, and the     *)
(* state it leaves.                                                          *)

IO == "io_agent"

OperationAgents ==
    {"suma_agent", "resta_agent", "multiplicacion_agent", "division_agent",
     "potencia_agent"}

\* OperationAgent.symbol of each agent, as the subclasses' constructors set it.
symbol(agent) ==
    CASE agent = "suma_agent" -> <<"+">>
      [] agent = "resta_agent" -> <<"-">>
      [] agent = "multiplicacion_agent" -> <<"*">>
      [] agent = "division_agent" -> <<"/">>
      [] agent = "potencia_agent" -> <<"*", "*">>

\* OperationAgent.operation_func of each agent.
operation_func(agent, a, b) ==
    CASE agent = "suma_agent" -> OpAdd(a, b)
      [] agent = "resta_agent" -> OpSub(a, b)
      [] agent = "multiplicacion_agent" -> OpMul(a, b)
      [] agent = "division_agent" -> safe_div(a, b)
      [] agent = "potencia_agent" -> OpPow(a, b)

\* The symbols of IOAgent.operator_map.
Operators == {<<"+">>, <<"-">>, <<"*">>, <<"/">>, <<"*", "*">>}

\* IOAgent.operator_map.get(operator): the agent id, or "None".
operator_map(operator) ==
    CASE operator = <<"+">> -> "suma_agent"
      [] operator = <<"-">> -> "resta_agent"
      [] operator = <<"*">> -> "multiplicacion_agent"
      [] operator = <<"/">> -> "division_agent"
      [] operator = <<"*", "*">> -> "potencia_agent"
      [] OTHER -> "None"

\* A function returns ret and leaves the state w.
Ok(ret, w) == [ok |-> TRUE, ret |-> ret, err |-> "none", w |-> w]

\* A function raises err and leaves the state w.
Raise(err, w) == [ok |-> FALSE, ret |-> <<>>, err |-> err, w |-> w]

\* The statement after a call that gave r: the rest K of the caller runs on the
\* state and the value the call returned; an exception of the call leaves the
\* caller at once.
Bind(r, K(_, _)) ==
    CHOOSE after \in {IF call.ok THEN K(call.w, call.ret) ELSE call : call \in {r}} :
        TRUE

\* Message(sender, receiver, content, msg_type)
Message(sender, receiver, content, msg_type) ==
    [sender |-> sender, receiver |-> receiver, content |-> content,
     msg_type |-> msg_type]

\* MessageBroker.log_enabled, set once by the constructor.
log_enabled == TRUE

\* send_message that puts the message at the front of the queue.
SendMessageFront(w, message) ==
    [w EXCEPT !.queue = <<message>> \o @,
              !.history = IF log_enabled THEN Append(@, message) ELSE @]

\* send_message that does not record the message in the history.
SendMessageUnlogged(w, message) == [w EXCEPT !.queue = Append(@, message)]

\* MessageBroker.send_message
send_message(w, message) ==
    [w EXCEPT !.queue = Append(@, message),
              !.history = IF log_enabled THEN Append(@, message) ELSE @]

\* get_messages_for that leaves the messages it returns in the queue.
GetMessagesKeeping(w, agent_id) ==
    Ok(SelectSeq(w.queue, LAMBDA m : m.receiver = agent_id), w)

\* MessageBroker.get_messages_for: the messages returned, and the queue left.
get_messages_for(w, agent_id) ==
    Ok(SelectSeq(w.queue, LAMBDA m : m.receiver = agent_id),
       [w EXCEPT !.queue = SelectSeq(@, LAMBDA m : m.receiver # agent_id)])

\* CalculatorModel.add_log
add_log(w, tag, data) ==
    [w EXCEPT !.logs = Append(@, [tag |-> tag, data |-> data])]

\* The counters with the agent's operation counted twice.
CountedTwice(ops, agent) == [ops EXCEPT ![agent] = @ + 2]

\* self.operations_performed += 1
Counted(ops, agent) == [ops EXCEPT ![agent] = @ + 1]

\* perform_operation counting the application that raised as well.
PerformedCountingFailure(w, agent, operand1, operand2, r) ==
    IF r.ok
    THEN Ok(r.v, add_log([w EXCEPT !.ops = Counted(@, agent)], "operation",
                         <<agent, operand1, operand2, r.v>>))
    ELSE Raise(r.err, add_log([w EXCEPT !.ops = Counted(@, agent)],
                              "operation error", <<agent, r.err>>))

\* OperationAgent.perform_operation, given what operation_func did.
Performed(w, agent, operand1, operand2, r) ==
    IF r.ok
    THEN Ok(r.v, add_log([w EXCEPT !.ops = Counted(@, agent)], "operation",
                         <<agent, operand1, operand2, r.v>>))
    ELSE Raise(r.err, add_log(w, "operation error", <<agent, r.err>>))

\* OperationAgent.perform_operation
perform_operation(w, agent, operand1, operand2) ==
    Performed(w, agent, operand1, operand2, operation_func(agent, operand1, operand2))

\* The for loop of OperationAgent.step over the messages it drained.
RECURSIVE StepLoop(_, _, _)
StepLoop(w, agent, messages) ==
    IF messages = <<>> THEN Ok(<<>>, w)
    ELSE IF Head(messages).msg_type = "operation"
    THEN Bind(perform_operation(w, agent, Head(messages).content[1],
                                Head(messages).content[2]),
              LAMBDA w1, result :
                  StepLoop(send_message(w1, Message(agent, Head(messages).sender,
                                                    <<result>>, "result")),
                           agent, Tail(messages)))
    ELSE StepLoop(w, agent, Tail(messages))

\* A call that raised, taken as one that returned nothing.
Swallowed(r) == IF r.ok THEN r ELSE Ok(<<>>, r.w)

\* What step gave, with a result of 0 sent to the coordinator when it raised.
Answering(r, agent) ==
    IF r.ok THEN r
    ELSE Raise(r.err, send_message(r.w, Message(agent, IO, <<Rat(0, 1)>>, "result")))

\* step answering a failed operation as well, before it raises.
StepAnsweringFailure(w, agent) ==
    Answering(Bind(get_messages_for(w, agent),
                   LAMBDA w1, messages : StepLoop(w1, agent, messages)),
              agent)

\* step that reads its messages and leaves them in the queue.
StepPeeking(w, agent) == StepLoop(w, agent, get_messages_for(w, agent).ret)

\* step catching the exception of the operation instead of letting it through.
StepSwallowing(w, agent) ==
    Swallowed(Bind(get_messages_for(w, agent),
                   LAMBDA w1, messages : StepLoop(w1, agent, messages)))

\* OperationAgent.step
step(w, agent) ==
    Bind(get_messages_for(w, agent),
         LAMBDA w1, messages : StepLoop(w1, agent, messages))

\* IOAgent.request_operation from its look at the response.
Response(w, agent_id, response) ==
    IF response # <<>>
    THEN Ok(response[1].content[1],
            add_log(w, "received", <<agent_id, response[1].content[1]>>))
    ELSE Raise("RuntimeError: no response", w)

\* IOAgent.request_operation once the agent id is found.
Dispatch(w, agent_id, operator, operand1, operand2) ==
    Bind(IF agent_id \in OperationAgents
         THEN step(add_log(send_message(w, Message(IO, agent_id,
                                                   <<operand1, operand2>>, "operation")),
                           "sent", <<agent_id, operator, operand1, operand2>>),
                   agent_id)
         ELSE Ok(<<>>, add_log(send_message(w, Message(IO, agent_id,
                                                       <<operand1, operand2>>,
                                                       "operation")),
                               "sent", <<agent_id, operator, operand1, operand2>>)),
         LAMBDA w1, none :
             Bind(get_messages_for(w1, IO),
                  LAMBDA w2, response : Response(w2, agent_id, response)))

\* IOAgent.request_operation
request_operation(w, operator, operand1, operand2) ==
    IF operator_map(operator) = "None"
    THEN Raise("ValueError: unsupported operator", w)
    ELSE Dispatch(w, operator_map(operator), operator, operand1, operand2)

-----------------------------------------------------------------------------
(* The evaluator of IOAgent. *)

LeftParen == Txt(<<"(">>)

RightParen == Txt(<<")">>)

IsOperatorIn(tok, operators) == tok.k = "txt" /\ tok.s \in operators

Last(S) == IF S = {} THEN 0 ELSE CHOOSE i \in S : \A j \in S : j <= i

First(S) == IF S = {} THEN 0 ELSE CHOOSE i \in S : \A j \in S : i <= j

\* The first '(' of tokens taken instead of the last.
LastOpenFirst(tokens) == First({i \in 1..Len(tokens) : tokens[i] = LeftParen})

\* The index of the last '(' of tokens, 0 when there is none.
LastOpen(tokens) == Last({i \in 1..Len(tokens) : tokens[i] = LeftParen})

\* The index of the first ')' after start, 0 when there is none.
FirstClose(tokens, start) ==
    First({i \in (start + 1)..Len(tokens) : tokens[i] = RightParen})

RECURSIVE OperatorLoop(_, _, _, _)

\* The index the loop looks at after a replacement at i, moved on by one.
AfterReplacementNext(i) == i + 1

\* The index the loop looks at after a replacement at i: i again.
AfterReplacement(i) == i

\* An operator found first read as 0 before it: -x as 0 - x.
InvalidPositionAsZero(w, tokens, operators, i) ==
    IF i = 1 THEN OperatorLoop(w, <<Str(Rat(0, 1))>> \o tokens, operators, 2)
    ELSE Raise("ValueError: operator in invalid position", w)

\* An operator found first or last, dropped from the list.
InvalidPositionDropped(w, tokens, operators, i) ==
    OperatorLoop(w, SubSeq(tokens, 1, i - 1) \o SubSeq(tokens, i + 1, Len(tokens)),
                 operators, i)

\* The loop at an operator that is first or last.
InvalidPosition(w, tokens, operators, i) ==
    Raise("ValueError: operator in invalid position", w)

\* The loop at an operator at i, given the float() of its two neighbours.
Replace(w, tokens, operators, i, operand1, operand2) ==
    IF ~operand1.ok THEN Raise(operand1.err, w)
    ELSE IF ~operand2.ok THEN Raise(operand2.err, w)
    ELSE Bind(request_operation(w, tokens[i].s, operand1.v, operand2.v),
              LAMBDA w1, result :
                  OperatorLoop(w1,
                               SubSeq(tokens, 1, i - 2) \o <<Str(result)>>
                                 \o SubSeq(tokens, i + 2, Len(tokens)),
                               operators, AfterReplacement(i)))

\* The while loop of IOAgent.evaluate_operator from index i (1-based).
OperatorLoop(w, tokens, operators, i) ==
    IF i > Len(tokens) THEN Ok(tokens, w)
    ELSE IF IsOperatorIn(tokens[i], operators)
    THEN IF i = 1 \/ i = Len(tokens)
         THEN InvalidPosition(w, tokens, operators, i)
         ELSE Replace(w, tokens, operators, i,
                      Float(tokens[i - 1]), Float(tokens[i + 1]))
    ELSE OperatorLoop(w, tokens, operators, i + 1)

\* IOAgent.evaluate_operator
evaluate_operator(w, tokens, operators) == OperatorLoop(w, tokens, operators, 1)

RECURSIVE evaluate_expression(_, _)
RECURSIVE handle_parentheses(_, _)

\* PrecedencePasses with the sum pass before the product pass.
PrecedencePassesSumFirst(w, tokens) ==
    Bind(evaluate_operator(w, tokens, {<<"*", "*">>}),
         LAMBDA w1, t1 :
             Bind(evaluate_operator(w1, t1, {<<"+">>, <<"-">>}),
                  LAMBDA w2, t2 : evaluate_operator(w2, t2, {<<"*">>, <<"/">>})))

\* PrecedencePasses with the product pass before the power pass.
PrecedencePassesProductFirst(w, tokens) ==
    Bind(evaluate_operator(w, tokens, {<<"*">>, <<"/">>}),
         LAMBDA w1, t1 :
             Bind(evaluate_operator(w1, t1, {<<"*", "*">>}),
                  LAMBDA w2, t2 : evaluate_operator(w2, t2, {<<"+">>, <<"-">>})))

\* The three precedence passes of IOAgent.evaluate_expression, in its order.
PrecedencePasses(w, tokens) ==
    Bind(evaluate_operator(w, tokens, {<<"*", "*">>}),
         LAMBDA w1, t1 :
             Bind(evaluate_operator(w1, t1, {<<"*">>, <<"/">>}),
                  LAMBDA w2, t2 : evaluate_operator(w2, t2, {<<"+">>, <<"-">>})))

\* IOAgent.evaluate_expression up to its final check: the parenthesis pass, then
\* the precedence passes; ret is the token list left.
Reduce(w, tokens) ==
    Bind(handle_parentheses(w, tokens), LAMBDA w1, t1 : PrecedencePasses(w1, t1))

\* return float(tokens[0]), given the float f.
Converted(f, w) == IF f.ok THEN Ok(f.v, w) ELSE Raise(f.err, w)

\* FinalCheck returning the first token whenever one is left.
FinalCheckFirst(w, tokens) ==
    IF Len(tokens) >= 1 THEN Converted(Float(tokens[1]), w)
    ELSE Raise("ValueError: tokens restantes", w)

\* The final check of IOAgent.evaluate_expression on the tokens left.
FinalCheck(w, tokens) ==
    IF Len(tokens) = 1 THEN Converted(Float(tokens[1]), w)
    ELSE Raise("ValueError: tokens restantes", w)

\* IOAgent.evaluate_expression
evaluate_expression(w, tokens) ==
    Bind(Reduce(w, tokens), LAMBDA w1, t1 : FinalCheck(w1, t1))

\* The body of handle_parentheses's loop for the group from start to end: the
\* group is evaluated and replaced by str(result), and the loop goes on.
Splice(w, tokens, start, end) ==
    Bind(evaluate_expression(add_log(w, "parenthesis",
                                     SubSeq(tokens, start + 1, end - 1)),
                             SubSeq(tokens, start + 1, end - 1)),
         LAMBDA w1, result :
             handle_parentheses(w1,
                                SubSeq(tokens, 1, start - 1) \o <<Str(result)>>
                                  \o SubSeq(tokens, end + 1, Len(tokens))))

\* A '(' that is never closed, taken to run to the end of the list.
UnclosedToEnd(w, tokens, start) == Splice(w, tokens, start, Len(tokens) + 1)

\* The loop at a '(' with no ')' after it.
Unclosed(w, tokens, start) == Raise("ValueError: unbalanced parentheses", w)

\* The loop of handle_parentheses at the last '(', given the ')' found for it.
Group(w, tokens, start, end) ==
    IF end = 0 THEN Unclosed(w, tokens, start) ELSE Splice(w, tokens, start, end)

\* IOAgent.handle_parentheses: one iteration of its while loop, then the rest.
handle_parentheses(w, tokens) ==
    IF LastOpen(tokens) = 0 THEN Ok(tokens, w)
    ELSE Group(w, tokens, LastOpen(tokens), FirstClose(tokens, LastOpen(tokens)))

\* The token list tokenize returns, as the evaluator reads it.
Tokens(texts) == [i \in 1..Len(texts) |-> Txt(texts[i])]

\* Finish closing the log of a failed evaluation with the separator line too.
FinishClosing(r) ==
    IF r.ok
    THEN Ok(r.ret, add_log(add_log(r.w, "result", r.ret), "rule", <<>>))
    ELSE Raise(r.err, add_log(add_log(r.w, "error", r.err), "rule", <<>>))

\* The end of IOAgent.process_expression, given what evaluate_expression did.
Finish(r) ==
    IF r.ok
    THEN Ok(r.ret, add_log(add_log(r.w, "result", r.ret), "rule", <<>>))
    ELSE Raise(r.err, add_log(r.w, "error", r.err))

\* IOAgent.process_expression from the tokens on.
Process(w, tokens) ==
    Finish(evaluate_expression(add_log(w, "tokens", tokens), Tokens(tokens)))

\* IOAgent.process_expression; current_expression is set by the caller of this
\* operator, processing is TRUE only inside the call.
process_expression(w, expression) ==
    Process(add_log(add_log(add_log(w, "rule", <<>>), "expression", expression),
                    "rule", <<>>),
            tokenize(Remove(expression, " ")))

\* clear_history leaving the history as it is.
ClearHistoryKeeping(w) == w

\* MessageBroker.clear_history
clear_history(w) == [w EXCEPT !.history = <<>>]

\* CalculatorModel.clear_logs
clear_logs(w) == [w EXCEPT !.logs = <<>>]

\* calculate starting every agent's count again.
CalculateResetting(w, expression) ==
    process_expression(
        clear_history(clear_logs([w EXCEPT !.ops = [a \in OperationAgents |-> 0]])),
        expression)

\* CalculatorModel.calculate
calculate(w, expression) == process_expression(clear_history(clear_logs(w)), expression)

\* CalculatorModel.get_statistics
get_statistics(w) ==
    [Sumas |-> w.ops["suma_agent"], Restas |-> w.ops["resta_agent"],
     Multiplicaciones |-> w.ops["multiplicacion_agent"],
     Divisiones |-> w.ops["division_agent"], Potencias |-> w.ops["potencia_agent"]]

\* reset_statistics leaving out the agent added last.
ResetStatisticsButPower(w) ==
    [w EXCEPT !.ops = [a \in OperationAgents |->
                          IF a = "potencia_agent" THEN w.ops[a] ELSE 0]]

\* CalculatorModel.reset_statistics
reset_statistics(w) == [w EXCEPT !.ops = [a \in OperationAgents |-> 0]]

-----------------------------------------------------------------------------
(* The inputs. *)

\* Numerals, operators and parentheses: the pieces of the lexeme inputs. Two
\* '*' in a row make the power operator.
Lexemes ==
    {<<"0">>, <<"2">>, <<"+">>, <<"-">>, <<"*">>, <<"/">>, <<"(">>, <<")">>}

\* The strings of at most n lexemes.
RECURSIVE LexemeStrings(_)
LexemeStrings(n) ==
    IF n = 0 THEN {<<>>}
    ELSE LET shorter == LexemeStrings(n - 1)
         IN  shorter \cup {s \o x : s \in shorter, x \in Lexemes}

\* The characters of the character inputs: a digit, the decimal point, both
\* signs, a letter no token holds, a blank and a parenthesis.
Chars == {"2", ".", "-", "+", "a", " ", "("}

\* The strings of at most n characters.
RECURSIVE CharStrings(_)
CharStrings(n) ==
    IF n = 0 THEN {<<>>}
    ELSE LET shorter == CharStrings(n - 1)
         IN  shorter \cup {Append(s, c) : s \in shorter, c \in Chars}

Atoms == {<<"2">>, <<"3">>}

\* The well-formed expressions with exactly k binary operators: operands are
\* numerals, or shorter expressions bare or in parentheses.
RECURSIVE WellFormed(_)
WellFormed(k) ==
    IF k = 0 THEN Atoms
    ELSE LET Operand(i) ==
                 IF i = 0 THEN Atoms
                 ELSE WellFormed(i) \cup {<<"(">> \o x \o <<")">> : x \in WellFormed(i)}
         IN  UNION {{l \o op \o r : l \in Operand(i), op \in Operators,
                                    r \in Operand(k - 1 - i)} : i \in 0..(k - 1)}

\* Powers outside the real numbers, outside the doubles and at the pole of zero.
PowerInputs ==
    {<<"(", "2", "-", "3", ")", "*", "*", "(", "2", "/", "3", ")">>,
     <<"2", "*", "*", "2", "2", "2", "2">>,
     <<"0", "*", "*", "-", "2">>}

\* Expressions with an operator of every precedence, with sibling groups and
\* with a group in a group.
OrderInputs ==
    {<<"2", "-", "3", "/", "2", "*", "3", "*", "*", "2">>,
     <<"(", "2", "+", "3", ")", "*", "(", "3", "-", "2", ")">>,
     <<"2", "*", "(", "3", "-", "(", "2", "+", "3", ")", ")">>}

\* A '-' before a group: first, after an operator, and first in a group.
SignedGroupInputs ==
    {<<"-", "(", "2", "+", "3", ")">>,
     <<"2", "*", "-", "(", "3", ")">>,
     <<"(", "-", "(", "3", ")", ")">>,
     <<"2", "-", "-", "(", "3", ")">>}

\* The numerals of the signed powers.
PowerNumerals == {<<"0">>, <<"2">>, <<"3">>, <<"2", ".", "5">>}

\* -a**b for the numerals a and b.
SignedPowerInputs ==
    {<<"-">> \o a \o <<"*", "*">> \o b : a \in PowerNumerals, b \in PowerNumerals}

\* The inputs of the single-call specification.
EvalInputs ==
    LexemeStrings(MaxLen) \cup CharStrings(MaxChars)
      \cup UNION {WellFormed(k) : k \in 0..MaxOps} \cup PowerInputs \cup OrderInputs
      \cup SignedGroupInputs \cup SignedPowerInputs

\* The inputs of a session: the examples of the specification's section 8 and
\* inputs that fail at each stage.
SessionInputs ==
    {<<"2", "+", "3", "*", "4">>, <<"8", "/", "4", "/", "2">>,
     <<"-", "3", "+", "5">>, <<"2", "-", "3">>, <<"2", "*", "*", "3">>,
     <<"5", "/", "0">>, <<"2", "+", "3", "/", "0">>, <<"(", "2", "+", "3">>,
     <<"-", "(", "2", "+", "3", ")">>, <<"2", "a", "+", "3">>}

-----------------------------------------------------------------------------
(* The state machine. *)

NoStatistics == [a \in OperationAgents |-> 0]

NoOutcome == [status |-> "none", value |-> Rat(0, 1), err |-> "none"]

NoPrevious == [repeated |-> FALSE, added |-> NoStatistics]

\* The state of the program as the functions above take it.
World ==
    [ops |-> operations_performed, queue |-> message_queue,
     history |-> message_history, logs |-> log_messages]

\* What the last call added to each counter.
Added == [a \in OperationAgents |-> operations_performed[a] - before[a]]

Total(ops) ==
    ops["suma_agent"] + ops["resta_agent"] + ops["multiplicacion_agent"]
      + ops["division_agent"] + ops["potencia_agent"]

\* No request_operation is being followed step by step.
NoRequest == [operator |-> "none", operand1 |-> Rat(0, 1), operand2 |-> Rat(0, 1)]

\* CalculatorModel.__init__, with the caller's expression still to choose.
Constructed ==
    /\ pc = "idle"
    /\ current_expression = <<>>
    /\ outcome = NoOutcome
    /\ operations_performed = NoStatistics
    /\ message_queue = <<>>
    /\ message_history = <<>>
    /\ log_messages = <<>>
    /\ before = NoStatistics
    /\ previous = NoPrevious
    /\ sent = 0
    /\ delivered = <<>>
    /\ stack = <<>>

\* The state after calculate(expression) gave r to its caller.
Called(expression, r) ==
    /\ pc' = "done"
    /\ entry' = expression
    /\ current_expression' = expression
    /\ outcome' = IF r.ok THEN [status |-> "value", value |-> r.ret, err |-> "none"]
                  ELSE [status |-> "error", value |-> Rat(0, 1), err |-> r.err]
    /\ operations_performed' = r.w.ops
    /\ message_queue' = r.w.queue
    /\ message_history' = r.w.history
    /\ log_messages' = r.w.logs
    /\ before' = operations_performed
    /\ previous' = IF /\ pc = "done" /\ outcome.status = "value"
                      /\ r.ok /\ entry = expression
                   THEN [repeated |-> TRUE, added |-> Added]
                   ELSE NoPrevious
    /\ UNCHANGED <<asked, sent, delivered, stack>>

\* The caller calls calculate(expression) and gets a value or an exception.
Calculate(expression) == Called(expression, calculate(World, expression))

\* The caller calls reset_statistics().
ResetStatistics ==
    /\ pc' = "reset"
    /\ operations_performed' = reset_statistics(World).ops
    /\ previous' = NoPrevious
    /\ UNCHANGED <<entry, current_expression, outcome, message_queue,
                   message_history, log_messages, before, asked, sent, delivered,
                   stack>>

\* A session: any sequence of calculate and reset_statistics calls.
Init == Constructed /\ entry = <<>> /\ asked = NoRequest

SessionCalculate ==
    \E expression \in SessionInputs :
        Total(operations_performed) < MaxPerformed /\ Calculate(expression)

Next == SessionCalculate \/ ResetStatistics

Spec == Init /\ [][Next]_vars

\* One call of calculate on a new model, for every input.
InitEval == Constructed /\ entry \in EvalInputs /\ asked = NoRequest

CalculateEntry == pc = "idle" /\ Calculate(entry)

NextEval == CalculateEntry

SpecEval == InitEval /\ [][NextEval]_vars

-----------------------------------------------------------------------------
(* The broker on its own. *)

\* Any sequence of send_message, get_messages_for and clear_history calls by the
\* broker's clients. The content of a message is its serial
\* number, which tells apart two messages with the same sender and receiver.

\* Most messages the clients send.
MaxSent == 3
\* Most get_messages_for calls the clients make.
MaxGets == 2

\* The ids the clients send from, send to and ask for.
Parties == {"io_agent", "suma_agent"}

\* The broker's part of the state is w; the rest is as it was.
Broker(w) ==
    /\ message_queue' = w.queue
    /\ message_history' = w.history
    /\ UNCHANGED <<entry, current_expression, outcome, operations_performed,
                   log_messages, before, previous, asked, stack>>

\* A client calls send_message(Message(sender, receiver, content, msg_type)).
BrokerSend ==
    \E sender \in Parties, receiver \in Parties :
        /\ sent < MaxSent
        /\ pc' = "sent"
        /\ sent' = sent + 1
        /\ delivered' = delivered
        /\ Broker(send_message(World, Message(sender, receiver, <<sent + 1>>,
                                              "operation")))

\* What get_messages_for(agent_id) gave r leaves behind.
Got(agent_id, r) ==
    /\ delivered' = Append(delivered, [to |-> agent_id, messages |-> r.ret])
    /\ Broker(r.w)

\* A client calls get_messages_for(agent_id).
BrokerGet ==
    \E agent_id \in Parties :
        /\ Len(delivered) < MaxGets
        /\ pc' = "got"
        /\ sent' = sent
        /\ Got(agent_id, get_messages_for(World, agent_id))

\* A client calls clear_history().
BrokerClearHistory ==
    /\ message_history # <<>>
    /\ pc' = "cleared"
    /\ UNCHANGED <<sent, delivered>>
    /\ Broker(clear_history(World))

InitBroker == Constructed /\ entry = <<>> /\ asked = NoRequest

NextBroker == BrokerSend \/ BrokerGet \/ BrokerClearHistory

SpecBroker == InitBroker /\ [][NextBroker]_vars

-----------------------------------------------------------------------------
(* One request_operation, statement by statement. *)

\* The operators request_operation is given: the five of operator_map and one
\* that operator_map does not know.
DispatchOperators == Operators \cup {<<"%">>}

\* The operands request_operation is given.
DispatchOperands == {Rat(0, 1), Rat(2, 1), Rat(-3, 1), Rat(1, 2)}

\* The agent request_operation addresses.
Addressed == operator_map(asked.operator)

\* The message request_operation sends.
Request ==
    Message(IO, Addressed, <<asked.operand1, asked.operand2>>, "operation")

\* The statement just run left the state w, the caller at p with the outcome o,
\* and the broker's answers d.
Run(w, p, o, d) ==
    /\ pc' = p
    /\ outcome' = o
    /\ delivered' = d
    /\ operations_performed' = w.ops
    /\ message_queue' = w.queue
    /\ message_history' = w.history
    /\ log_messages' = w.logs
    /\ UNCHANGED <<entry, current_expression, before, previous, asked, sent,
                   stack>>

\* The caller of request_operation gets the exception err.
Thrown(err) == [status |-> "error", value |-> Rat(0, 1), err |-> err]

\* request_operation sending its message before it looks at the agent id.
DispatchSendUnchecked ==
    /\ pc = "idle"
    /\ IF Addressed = "None"
       THEN Run(send_message(World, Request), "raised",
                Thrown("ValueError: unsupported operator"), delivered)
       ELSE Run(add_log(send_message(World, Request), "sent",
                        <<Addressed, asked.operator, asked.operand1,
                          asked.operand2>>),
                "requested", outcome, delivered)

\* request_operation looks its agent up, sends the request and logs it.
DispatchSend ==
    /\ pc = "idle"
    /\ IF Addressed = "None"
       THEN Run(World, "raised", Thrown("ValueError: unsupported operator"),
                delivered)
       ELSE Run(add_log(send_message(World, Request), "sent",
                        <<Addressed, asked.operator, asked.operand1,
                          asked.operand2>>),
                "requested", outcome, delivered)

\* The state after the agent's step gave r, having got the messages g.
AfterStep(r, g) ==
    Run(r.w, IF r.ok THEN "stepped" ELSE "raised",
        IF r.ok THEN outcome ELSE Thrown(r.err),
        Append(delivered, [to |-> Addressed, messages |-> g.ret]))

\* request_operation activates the agent it addressed.
DispatchStep ==
    /\ pc = "requested"
    /\ AfterStep(step(World, Addressed), get_messages_for(World, Addressed))

\* The state after request_operation read the messages g and so ended with r.
AfterReceive(r, g) ==
    Run(r.w, IF r.ok THEN "returned" ELSE "raised",
        IF r.ok THEN [status |-> "value", value |-> r.ret, err |-> "none"]
        ELSE Thrown(r.err),
        Append(delivered, [to |-> IO, messages |-> g.ret]))

\* request_operation takes its response from the broker and returns or raises.
DispatchReceive ==
    /\ pc = "stepped"
    /\ AfterReceive(Bind(get_messages_for(World, IO),
                         LAMBDA w, response : Response(w, Addressed, response)),
                    get_messages_for(World, IO))

InitDispatch ==
    /\ Constructed
    /\ entry = <<>>
    /\ asked \in [operator : DispatchOperators, operand1 : DispatchOperands,
                  operand2 : DispatchOperands]

NextDispatch == DispatchSend \/ DispatchStep \/ DispatchReceive

SpecDispatch == InitDispatch /\ [][NextDispatch]_vars

-----------------------------------------------------------------------------
(* One evaluation of a token list, loop iteration by loop iteration. *)

\* Longest token list made of arbitrary tokens.
MaxTokens == 3

\* The tokens of the arbitrary token lists: numerals, one operator of each
\* precedence and the parentheses.
StepTokens == {<<"2">>, <<"0">>, <<"-">>, <<"/">>, <<"*", "*">>, <<"(">>, <<")">>}

\* The token lists of at most n tokens.
RECURSIVE TokenLists(_)
TokenLists(n) ==
    IF n = 0 THEN {<<>>}
    ELSE LET shorter == TokenLists(n - 1)
         IN  shorter \cup {Append(s, x) : s \in shorter, x \in StepTokens}

\* Longer token lists: nested and sibling groups, a folded negative literal, and
\* failures inside and after a group.
StepExamples ==
    {<<<<"(">>, <<"(">>, <<"2">>, <<")">>, <<")">>>>,
     <<<<"(">>, <<"2">>, <<"-">>, <<"0">>, <<")">>, <<"/">>,
       <<"(">>, <<"2">>, <<"/">>, <<"2">>, <<")">>>>,
     <<<<"-", "2">>, <<"*", "*">>, <<"2">>, <<"-">>, <<"2">>, <<"/">>, <<"2">>>>,
     <<<<"2">>, <<"-">>, <<"(">>, <<"2">>, <<"/">>, <<"0">>, <<")">>, <<"-">>, <<"2">>>>,
     <<<<"(">>, <<"2">>, <<"-">>, <<"2">>, <<")">>, <<"-">>, <<"(">>, <<"2">>>>,
     <<<<"2">>, <<"/">>, <<"2">>, <<"-">>, <<"/">>, <<"2">>>>}

\* The token lists evaluated.
StepInputs == TokenLists(MaxTokens) \cup StepExamples

\* A call of evaluate_expression on tokens, at its first statement.
Frame(tokens) ==
    [tokens |-> tokens, stage |-> "parentheses", i |-> 1, start |-> 0, end |-> 0]

\* The innermost call of evaluate_expression.
Top == stack[Len(stack)]

\* The operators of the pass a call is in.
StageOperators(stage) ==
    CASE stage = "power" -> {<<"*", "*">>}
      [] stage = "product" -> {<<"*">>, <<"/">>}
      [] stage = "sum" -> {<<"+">>, <<"-">>}
      [] OTHER -> {}

\* The statement of evaluate_expression after a pass.
NextStage(stage) ==
    CASE stage = "parentheses" -> "power"
      [] stage = "power" -> "product"
      [] stage = "product" -> "sum"
      [] OTHER -> "check"

\* tokens[:i-1] + [str(result)] + tokens[i+2:], with the operator at i (1-based).
Replaced(tokens, i, result) ==
    SubSeq(tokens, 1, i - 2) \o <<Str(result)>> \o SubSeq(tokens, i + 2, Len(tokens))

\* tokens[:start] + [str(result)] + tokens[end+1:], with the group from start to
\* end (1-based).
Spliced(tokens, start, end, result) ==
    SubSeq(tokens, 1, start - 1) \o <<Str(result)>>
      \o SubSeq(tokens, end + 1, Len(tokens))

\* The statement just run left the state w and the calls in progress s.
Going(w, s) ==
    /\ pc' = "evaluating"
    /\ stack' = s
    /\ operations_performed' = w.ops
    /\ message_queue' = w.queue
    /\ message_history' = w.history
    /\ log_messages' = w.logs
    /\ UNCHANGED <<entry, current_expression, outcome, before, previous, asked,
                   sent, delivered>>

\* The innermost call goes on as frame f, in the state w.
Continue(w, f) == Going(w, SubSeq(stack, 1, Len(stack) - 1) \o <<f>>)

\* The statement just run raised: r is what it gave. The exception leaves every
\* call of evaluate_expression and reaches the except clause of
\* process_expression.
Fail(r) ==
    /\ pc' = "failing"
    /\ stack' = <<>>
    /\ outcome' = Thrown(r.err)
    /\ operations_performed' = r.w.ops
    /\ message_queue' = r.w.queue
    /\ message_history' = r.w.history
    /\ log_messages' = r.w.logs
    /\ UNCHANGED <<entry, current_expression, before, previous, asked, sent,
                   delivered>>

\* process_expression ends as r: it has logged its result or its error.
Ended(r) ==
    /\ pc' = "done"
    /\ stack' = <<>>
    /\ outcome' = IF r.ok THEN [status |-> "value", value |-> r.ret, err |-> "none"]
                  ELSE Thrown(r.err)
    /\ operations_performed' = r.w.ops
    /\ message_queue' = r.w.queue
    /\ message_history' = r.w.history
    /\ log_messages' = r.w.logs
    /\ UNCHANGED <<entry, current_expression, before, previous, asked, sent,
                   delivered>>

\* One iteration of the while loop of handle_parentheses in the innermost call,
\* with the last '(' at start and the first ')' after it at end.
ParenthesisIteration(f, start, end) ==
    IF start = 0 THEN Continue(World, [f EXCEPT !.stage = NextStage(@), !.i = 1])
    ELSE IF end = 0 THEN Fail(Unclosed(World, f.tokens, start))
    ELSE Going(add_log(World, "parenthesis", SubSeq(f.tokens, start + 1, end - 1)),
               SubSeq(stack, 1, Len(stack) - 1)
                 \o <<[f EXCEPT !.start = start, !.end = end],
                      Frame(SubSeq(f.tokens, start + 1, end - 1))>>)

StepParentheses ==
    /\ pc = "evaluating"
    /\ Top.stage = "parentheses"
    /\ ParenthesisIteration(Top, LastOpen(Top.tokens),
                            FirstClose(Top.tokens, LastOpen(Top.tokens)))

\* Substitution going on to the next token when the request failed.
SubstitutionGoingOn(f, r) ==
    IF r.ok
    THEN Continue(r.w, [f EXCEPT !.tokens = Replaced(@, f.i, r.ret),
                                 !.i = AfterReplacement(f.i)])
    ELSE Continue(r.w, [f EXCEPT !.i = @ + 1])

\* The loop of evaluate_operator staying at a token that is not its operator.
SkipStaying(f) == f

\* i += 1
Skip(f) == [f EXCEPT !.i = @ + 1]

\* The replacement of the operator at f.i, given what request_operation did.
Substitution(f, r) ==
    IF r.ok
    THEN Continue(r.w, [f EXCEPT !.tokens = Replaced(@, f.i, r.ret),
                                 !.i = AfterReplacement(f.i)])
    ELSE Fail(r)

\* The iteration at an operator, given the float() of its two neighbours.
OperatorFound(f, operand1, operand2) ==
    IF ~operand1.ok THEN Fail(Raise(operand1.err, World))
    ELSE IF ~operand2.ok THEN Fail(Raise(operand2.err, World))
    ELSE Substitution(f, request_operation(World, f.tokens[f.i].s,
                                           operand1.v, operand2.v))

\* One iteration of the while loop of evaluate_operator in the innermost call,
\* or the end of the loop.
OperatorIteration(f, operators) ==
    IF f.i > Len(f.tokens)
    THEN Continue(World, [f EXCEPT !.stage = NextStage(@), !.i = 1])
    ELSE IF IsOperatorIn(f.tokens[f.i], operators)
    THEN IF f.i = 1 \/ f.i = Len(f.tokens)
         THEN Fail(InvalidPosition(World, f.tokens, operators, f.i))
         ELSE OperatorFound(f, Float(f.tokens[f.i - 1]), Float(f.tokens[f.i + 1]))
    ELSE Continue(World, Skip(f))

StepOperator ==
    /\ pc = "evaluating"
    /\ Top.stage \in {"power", "product", "sum"}
    /\ OperatorIteration(Top, StageOperators(Top.stage))

\* The innermost call returns r.ret to handle_parentheses of the call below it,
\* which replaces its group and goes round its loop again.
Return(below, r) ==
    Going(r.w, SubSeq(stack, 1, Len(stack) - 2)
                 \o <<[below EXCEPT !.tokens = Spliced(@, below.start, below.end,
                                                       r.ret),
                                    !.start = 0, !.end = 0]>>)

\* The final check of the innermost call gave r.
Checked(r) ==
    IF ~r.ok THEN Fail(r)
    ELSE IF Len(stack) = 1 THEN Ended(Finish(r))
    ELSE Return(stack[Len(stack) - 1], r)

StepCheck ==
    /\ pc = "evaluating"
    /\ Top.stage = "check"
    /\ Checked(FinalCheck(World, Top.tokens))

\* The except clause of process_expression logs the error and raises it again.
StepExcept ==
    /\ pc = "failing"
    /\ Ended(Finish(Raise(outcome.err, World)))

\* process_expression has logged the tokens and calls evaluate_expression.
InitSteps ==
    /\ pc = "evaluating"
    /\ entry \in StepInputs
    /\ stack = <<Frame(Tokens(entry))>>
    /\ current_expression = <<>>
    /\ outcome = NoOutcome
    /\ operations_performed = NoStatistics
    /\ message_queue = <<>>
    /\ message_history = <<>>
    /\ log_messages = <<[tag |-> "tokens", data |-> entry]>>
    /\ before = NoStatistics
    /\ previous = NoPrevious
    /\ asked = NoRequest
    /\ sent = 0
    /\ delivered = <<>>

NextSteps == StepParentheses \/ StepOperator \/ StepCheck \/ StepExcept

SpecSteps == InitSteps /\ [][NextSteps]_vars

\* The program runs on as long as it has a statement to run.
SpecStepsFair == SpecSteps /\ WF_vars(NextSteps)

-----------------------------------------------------------------------------
(* What the properties read from a state. *)

\* The matches of the pattern in the entry, blanks removed: tokenize's first list.
RawTokens == FindAll(Remove(entry, " "), 1)

\* The tokens tokenize returned, as process_expression logged them.
LoggedTokens == log_messages[4].data

\* Every character of the entry, blanks apart, is part of a token.
RECURSIVE Concat(_)
Concat(texts) == IF texts = <<>> THEN <<>> ELSE Head(texts) \o Concat(Tail(texts))

NothingDropped == Concat(RawTokens) = Remove(entry, " ")

IsNumeral(text) == text # <<>> /\ Head(text) \in Digits

IsLiteral(text) ==
    IsNumeral(text) \/ (Len(text) > 1 /\ Head(text) = "-" /\ IsNumeral(Tail(text)))

\* The number of '(' less the number of ')' among the first i tokens.
RECURSIVE Depth(_, _)
Depth(texts, i) ==
    IF i = 0 THEN 0
    ELSE Depth(texts, i - 1)
           + (IF texts[i] = <<"(">> THEN 1 ELSE IF texts[i] = <<")">> THEN -1 ELSE 0)

\* Every ')' closes an earlier '(' and every '(' is closed.
Balanced(texts) ==
    /\ \A i \in 1..Len(texts) : Depth(texts, i) >= 0
    /\ Depth(texts, Len(texts)) = 0

Occurrences(texts, text) == Cardinality({i \in 1..Len(texts) : texts[i] = text})

-----------------------------------------------------------------------------
(* The value of an expression by the grammar                                 *)
(*   sum     ::= product (('+' | '-') product)*                              *)
(*   product ::= power (('*' | '/') power)*                                  *)
(*   power   ::= primary ('**' primary)*                                     *)
(*   primary ::= literal | '(' sum ')'                                       *)
(* every repetition applied left to right.  A parse gives [ok, v, p]: the    *)
(* value and the position after it.                                          *)

Parsed(v, p) == [ok |-> TRUE, v |-> v, p |-> p]

NoParse == [ok |-> FALSE, v |-> Rat(0, 1), p |-> 0]

RECURSIVE GrammarSum(_, _)
RECURSIVE GrammarSumRest(_, _, _)
RECURSIVE GrammarProduct(_, _)
RECURSIVE GrammarProductRest(_, _, _)
RECURSIVE GrammarPower(_, _)
RECURSIVE GrammarPowerRest(_, _, _)

GrammarPrimary(texts, p) ==
    IF p > Len(texts) THEN NoParse
    ELSE IF texts[p] = <<"(">>
    THEN LET r == GrammarSum(texts, p + 1)
         IN  IF r.ok /\ r.p <= Len(texts) /\ texts[r.p] = <<")">>
             THEN Parsed(r.v, r.p + 1) ELSE NoParse
    ELSE IF IsLiteral(texts[p]) THEN Parsed(Float(Txt(texts[p])).v, p + 1)
    ELSE NoParse

GrammarPowerRest(texts, p, acc) ==
    IF p <= Len(texts) /\ texts[p] = <<"*", "*">>
    THEN LET r == GrammarPrimary(texts, p + 1)
             v == IF r.ok THEN OpPow(acc, r.v) ELSE Raised("parse")
         IN  IF v.ok /\ v.v.kind # "cx" THEN GrammarPowerRest(texts, r.p, v.v)
             ELSE NoParse
    ELSE Parsed(acc, p)

GrammarPower(texts, p) ==
    LET r == GrammarPrimary(texts, p)
    IN  IF r.ok THEN GrammarPowerRest(texts, r.p, r.v) ELSE NoParse

GrammarProductRest(texts, p, acc) ==
    IF p <= Len(texts) /\ texts[p] \in {<<"*">>, <<"/">>}
    THEN LET r == GrammarPower(texts, p + 1)
             v == IF ~r.ok THEN Raised("parse")
                  ELSE IF texts[p] = <<"*">> THEN OpMul(acc, r.v) ELSE safe_div(acc, r.v)
         IN  IF v.ok THEN GrammarProductRest(texts, r.p, v.v) ELSE NoParse
    ELSE Parsed(acc, p)

GrammarProduct(texts, p) ==
    LET r == GrammarPower(texts, p)
    IN  IF r.ok THEN GrammarProductRest(texts, r.p, r.v) ELSE NoParse

GrammarSumRest(texts, p, acc) ==
    IF p <= Len(texts) /\ texts[p] \in {<<"+">>, <<"-">>}
    THEN LET r == GrammarProduct(texts, p + 1)
             v == IF ~r.ok THEN Raised("parse")
                  ELSE IF texts[p] = <<"+">> THEN OpAdd(acc, r.v) ELSE OpSub(acc, r.v)
         IN  IF v.ok THEN GrammarSumRest(texts, r.p, v.v) ELSE NoParse
    ELSE Parsed(acc, p)

GrammarSum(texts, p) ==
    LET r == GrammarProduct(texts, p)
    IN  IF r.ok THEN GrammarSumRest(texts, r.p, r.v) ELSE NoParse

\* The value of the whole token list, when it is an expression of the grammar
\* whose operations all succeed.
GrammarValue(texts) ==
    LET r == GrammarSum(texts, 1)
    IN  IF r.ok /\ r.p = Len(texts) + 1 THEN Returned(r.v) ELSE Raised("no value")

-----------------------------------------------------------------------------
(* The properties. *)

\* C1: when calculate returns a number for an expression built only from
\* numerals, the five operators and parentheses, that number is the value of the
\* expression by the grammar: parenthesized groups first, then every '**', then
\* every '*' and '/', then every '+' and '-'.
C1_PrecedenceValue ==
    (pc = "done" /\ outcome.status = "value" /\ NothingDropped)
        => /\ GrammarValue(LoggedTokens).ok
           /\ outcome.value = GrammarValue(LoggedTokens).v

\* Witness of C1: (2+3)*3 has returned 15, not 2+(3*3) = 11.
C1_Witness ==
    /\ pc = "done"
    /\ entry = <<"(", "2", "+", "3", ")", "*", "3">>
    /\ outcome.status = "value"
    /\ outcome.value = Rat(15, 1)

\* The tiers of the precedence passes: the operators one pass evaluates.
Tiers == {{<<"*", "*">>}, {<<"*">>, <<"/">>}, {<<"+">>, <<"-">>}}

\* C2: a op1 b op2 c with op1 and op2 of one tier is evaluated left to right:
\* calculate returns (a op1 b) op2 c, and raises when either operation raises.
C2_LeftToRight ==
    LET t == LoggedTokens
    IN  (/\ pc = "done" /\ Len(t) = 5
         /\ IsLiteral(t[1]) /\ IsLiteral(t[3]) /\ IsLiteral(t[5])
         /\ \E tier \in Tiers : t[2] \in tier /\ t[4] \in tier)
            => LET first == operation_func(operator_map(t[2]),
                                           Float(Txt(t[1])).v, Float(Txt(t[3])).v)
                   second == operation_func(operator_map(t[4]),
                                            first.v, Float(Txt(t[5])).v)
               IN  IF first.ok /\ second.ok
                   THEN outcome.status = "value" /\ outcome.value = second.v
                   ELSE outcome.status = "error"

\* Witness of C2: 2**3**2 has returned (2**3)**2 = 64, not 2**(3**2) = 512.
C2_Witness ==
    /\ pc = "done"
    /\ entry = <<"2", "*", "*", "3", "*", "*", "2">>
    /\ outcome.status = "value"
    /\ outcome.value = Rat(64, 1)

\* The positions of the '-' tokens that open the list or follow an operator or
\* '(' and stand before a numeral.
SignPositions(raw) ==
    {i \in 1..(Len(raw) - 1) :
        /\ raw[i] = <<"-">>
        /\ i = 1 \/ raw[i - 1] \in Operators \cup {<<"(">>}
        /\ IsNumeral(raw[i + 1])}

\* The raw tokens from position i on with every sign joined to its numeral.
RECURSIVE Joined(_, _)
Joined(raw, i) ==
    IF i > Len(raw) THEN <<>>
    ELSE IF i \in SignPositions(raw) THEN Joined(raw, i + 1)
    ELSE IF i - 1 \in SignPositions(raw) THEN <<(<<"-">> \o raw[i])>> \o Joined(raw, i + 1)
    ELSE <<raw[i]>> \o Joined(raw, i + 1)

\* C3: tokenize joins a '-' to the token after it exactly when the '-' opens
\* the list or follows an operator or '(' and the token after it is a numeral;
\* every other token, a '-' after a numeral or ')' included, is kept as it is.
C3_NegativeLiteralFold ==
    pc = "done" => LoggedTokens = Joined(RawTokens, 1)

\* Witness of C3: in 2*-2 the '-' was joined to the 2, and the product is -4.
C3_Witness ==
    /\ pc = "done"
    /\ entry = <<"2", "*", "-", "2">>
    /\ LoggedTokens = <<(<<"2">>), (<<"*">>), (<<"-", "2">>)>>
    /\ outcome.value = Rat(-4, 1)

\* The requests of a division by zero in the history.
ZeroDivisions ==
    {i \in 1..Len(message_history) :
        /\ message_history[i].msg_type = "operation"
        /\ message_history[i].receiver = "division_agent"
        /\ IsZero(message_history[i].content[2])}

\* C4: when a division by zero was dispatched, calculate has raised the
\* division error and returned no number, and the request got no result
\* message: it is the last message of the history.
C4_DivisionByZero ==
    (pc = "done" /\ ZeroDivisions # {})
        => /\ outcome.status = "error"
           /\ outcome.err = "ValueError: division by zero"
           /\ ZeroDivisions = {Len(message_history)}

\* Witness of C4: 3/(2-2) raised after the subtraction in the parentheses had
\* been answered.
C4_Witness ==
    /\ pc = "done"
    /\ entry = <<"3", "/", "(", "2", "-", "2", ")">>
    /\ ZeroDivisions = {3}
    /\ outcome.status = "error"

\* C5: a token list with a '(' that is never closed or a ')' that closes
\* nothing makes calculate raise.
C5_UnbalancedParentheses ==
    (pc = "done" /\ ~Balanced(LoggedTokens)) => outcome.status = "error"

\* Witness of C5: (2+2 raised for its open parenthesis.
C5_Witness ==
    /\ pc = "done"
    /\ entry = <<"(", "2", "+", "2">>
    /\ outcome.err = "ValueError: unbalanced parentheses"

\* C6, as claimed: an entry with a character outside every token makes
\* tokenize raise, so calculate raises and no token list is logged.
C6_LexicalError ==
    (pc = "done" /\ ~NothingDropped)
        => /\ outcome.status = "error"
           /\ \A i \in 1..Len(log_messages) : log_messages[i].tag # "tokens"

\* An operator with no operand on one side: first or last of the list or of a
\* parenthesized group, or next to another operator.
Misplaced(texts) ==
    \E i \in 1..Len(texts) :
        /\ texts[i] \in Operators
        /\ \/ i = 1 \/ i = Len(texts)
           \/ texts[i - 1] \in Operators \cup {<<"(">>}
           \/ texts[i + 1] \in Operators \cup {<<")">>}

\* The exceptions raised inside a precedence pass, its dispatches included.
PassErrors ==
    {"ValueError: operator in invalid position",
     "ValueError: could not convert string to float",
     "ValueError: division by zero", "ZeroDivisionError", "OverflowError"}

\* C7: tokenize returns a token list with a leading, trailing or doubled
\* operator as it is, and calculate then raises; when the list has no
\* parentheses the exception is one of a precedence pass.
C7_MisplacedOperator ==
    (pc = "done" /\ Misplaced(LoggedTokens))
        => /\ log_messages[4].tag = "tokens"
           /\ outcome.status = "error"
           /\ (Occurrences(LoggedTokens, <<"(">>) + Occurrences(LoggedTokens, <<")">>) = 0)
                  => outcome.err \in PassErrors

\* Witness of C7: 2++2 was tokenized as four tokens and raised in the sum pass.
C7_Witness ==
    /\ pc = "done"
    /\ entry = <<"2", "+", "+", "2">>
    /\ Len(LoggedTokens) = 4
    /\ outcome.err = "ValueError: could not convert string to float"

\* The state of a new model.
NewWorld ==
    [ops |-> NoStatistics, queue |-> <<>>, history |-> <<>>, logs |-> <<>>]

\* The tokens left of the entry after the parenthesis pass and the three passes.
Residue == Reduce(NewWorld, Tokens(LoggedTokens))

\* C8: calculate returns a number only when the passes leave exactly one
\* token; when they leave none or more than one, it raises the residual error.
C8_ExactlyOneToken ==
    pc = "done"
        => LET left == Residue
           IN  /\ outcome.status = "value" => (left.ok /\ Len(left.ret) = 1)
               /\ (left.ok /\ Len(left.ret) # 1)
                      => /\ outcome.status = "error"
                         /\ outcome.err = "ValueError: tokens restantes"

\* Witness of C8: 2(2) left the two tokens 2 and 2.0 and raised.
C8_Witness ==
    /\ pc = "done"
    /\ entry = <<"2", "(", "2", ")">>
    /\ Residue.ok /\ Len(Residue.ret) = 2
    /\ outcome.err = "ValueError: tokens restantes"

\* C9, as claimed: a calculate that returns adds to each agent's counter the
\* number of occurrences of the agent's symbol in the expression.
C9_CountsSymbolOccurrences ==
    (pc = "done" /\ outcome.status = "value")
        => \A a \in OperationAgents : Added[a] = Occurrences(RawTokens, symbol(a))

\* C9, amended: a calculate that returns adds to each agent's counter the number
\* of operator tokens with the agent's symbol in the list tokenize returns (a
\* '-' joined to a numeral is no operator token), and the same expression
\* evaluated twice in a row adds the same amounts twice.
C9_CountsOperatorTokens ==
    (pc = "done" /\ outcome.status = "value")
        => /\ \A a \in OperationAgents : Added[a] = Occurrences(LoggedTokens, symbol(a))
           /\ previous.repeated => Added = previous.added

\* Witness of C9: -3+5 was evaluated twice in a row, each time adding one sum
\* and no subtraction.
C9_Witness ==
    /\ pc = "done"
    /\ entry = <<"-", "3", "+", "5">>
    /\ outcome.status = "value"
    /\ previous.repeated
    /\ Added["suma_agent"] = 1 /\ Added["resta_agent"] = 0
    /\ operations_performed["suma_agent"] >= 2

\* C10: after reset_statistics, and until the next calculate, get_statistics
\* gives 0 for all five operations.
C10_ResetZeroes ==
    pc = "reset"
        => get_statistics(World)
             = [Sumas |-> 0, Restas |-> 0, Multiplicaciones |-> 0,
                Divisiones |-> 0, Potencias |-> 0]

\* Witness of C10: a reset after a failed evaluation that followed successful
\* ones.
C10_Witness ==
    /\ pc = "reset"
    /\ outcome.status = "error"
    /\ Total(before) > 0
    /\ Total(operations_performed) = 0

\* The requests sent to an agent and the results it sent back, in the history.
Requests(a) ==
    Cardinality({i \in 1..Len(message_history) :
                    /\ message_history[i].msg_type = "operation"
                    /\ message_history[i].receiver = a})

Results(a) ==
    Cardinality({i \in 1..Len(message_history) :
                    /\ message_history[i].msg_type = "result"
                    /\ message_history[i].sender = a})

\* The agents with a request they did not answer: their operation raised.
Unanswered == {a \in OperationAgents : Requests(a) > Results(a)}

\* C11: a calculate adds to each agent's counter the number of applications the
\* agent completed, that is the results it sent: an application that raised
\* adds nothing to the counter of its agent, and the applications completed
\* before it in the same evaluation keep their increments.
C11_OnlySuccessCounts ==
    pc = "done"
        => /\ \A a \in OperationAgents : Added[a] = Results(a)
           /\ \A a \in Unanswered :
                  /\ outcome.status = "error"
                  /\ Added[a] = Requests(a) - 1

\* Witness of C11: 2/(2-2) raised in the division after the subtraction was
\* counted; the division was not.
C11_Witness ==
    /\ pc = "done"
    /\ entry = <<"2", "/", "(", "2", "-", "2", ")">>
    /\ outcome.err = "ValueError: division by zero"
    /\ Unanswered = {"division_agent"}
    /\ Added["resta_agent"] = 1
    /\ Added["division_agent"] = 0

\* C12: over any sequence of calls no calculate, returning or raising, lowers a
\* counter, and a counter goes down only in a reset_statistics, to 0.
C12_Cumulative ==
    [][\A a \in OperationAgents :
           /\ pc' = "done" => operations_performed'[a] >= operations_performed[a]
           /\ operations_performed'[a] < operations_performed[a]
                  => (pc' = "reset" /\ operations_performed'[a] = 0)]_vars

\* Witness of C12: 5/0 raised after earlier evaluations had counted two
\* operations or more, and the counters are what they were.
C12_Witness ==
    /\ pc = "done"
    /\ entry = <<"5", "/", "0">>
    /\ outcome.status = "error"
    /\ Total(before) >= 2
    /\ operations_performed = before

\* What calculate(entry) leaves on a model that has evaluated nothing before.
Alone == calculate(NewWorld, entry).w

\* C13: after any calculate, returned or raised and whatever was evaluated
\* before, the log and the history are those of this evaluation alone: they are
\* what the same call leaves on a new model, and the log opens with the lines of
\* this expression.
C13_OnlyLastEvaluation ==
    pc = "done"
        => /\ LET apart == Alone
               IN  /\ log_messages = apart.logs
                   /\ message_history = apart.history
           /\ log_messages[1].tag = "rule"
           /\ log_messages[2] = [tag |-> "expression", data |-> entry]

\* Witness of C13: 2-3 was evaluated after evaluations that had sent messages;
\* the history holds its one request and its one result.
C13_Witness ==
    /\ pc = "done"
    /\ entry = <<"2", "-", "3">>
    /\ Total(before) >= 2
    /\ Len(message_history) = 2
    /\ message_history[1].content = <<Rat(2, 1), Rat(3, 1)>>

\* The log lines that record an exception.
ErrorLines ==
    {i \in 1..Len(log_messages) : log_messages[i].tag \in {"error", "operation error"}}

\* C14: when calculate raises, whatever the exception, the last line of the log
\* is the line of that exception, and when the log records an exception
\* calculate has raised and returned no value.
C14_ErrorIsLastLine ==
    pc = "done"
        => /\ outcome.status = "error"
                  => log_messages[Len(log_messages)]
                       = [tag |-> "error", data |-> outcome.err]
           /\ ErrorLines # {} => outcome.status = "error"

\* Witness of C14: 2/0 raised; the agent logged its exception, and the last line
\* is the one process_expression logged for it.
C14_Witness ==
    /\ pc = "done"
    /\ entry = <<"2", "/", "0">>
    /\ outcome.status = "error"
    /\ log_messages[Len(log_messages) - 1].tag = "operation error"
    /\ log_messages[Len(log_messages)].data = "ValueError: division by zero"

\* The position after the expression that starts at token p, 0 when there is
\* none:  expression ::= operand (operator operand)*
\*        operand    ::= literal | '(' expression ')'
RECURSIVE SyntaxExpression(_, _)
RECURSIVE SyntaxRest(_, _)

SyntaxClosed(texts, q) ==
    IF q # 0 /\ q <= Len(texts) /\ texts[q] = <<")">> THEN q + 1 ELSE 0

SyntaxOperand(texts, p) ==
    IF p > Len(texts) THEN 0
    ELSE IF texts[p] = <<"(">> THEN SyntaxClosed(texts, SyntaxExpression(texts, p + 1))
    ELSE IF IsLiteral(texts[p]) THEN p + 1
    ELSE 0

SyntaxRest(texts, q) ==
    IF q = 0 THEN 0
    ELSE IF q <= Len(texts) /\ texts[q] \in Operators
    THEN SyntaxRest(texts, SyntaxOperand(texts, q + 1))
    ELSE q

SyntaxExpression(texts, p) == SyntaxRest(texts, SyntaxOperand(texts, p))

\* The token list is a well-formed expression: literals, the five operators
\* between operands, balanced parentheses around expressions.
IsWellFormed(texts) == SyntaxExpression(texts, 1) = Len(texts) + 1

\* The exceptions of a division by zero, that of pow for a zero base included.
ZeroDivisionErrors == {"ValueError: division by zero", "ZeroDivisionError"}

\* C15, as claimed: for a well-formed expression calculate returns a number, or
\* raises for a division by zero; it fails in no other way.
C15_WellFormedReturns ==
    (pc = "done" /\ NothingDropped /\ IsWellFormed(LoggedTokens))
        => \/ outcome.status = "value"
           \/ outcome.err \in ZeroDivisionErrors

\* The operator tokens of the list tokenize returned: one substitution each in
\* an evaluation that returns.
OperatorTokens ==
    Cardinality({i \in 1..Len(LoggedTokens) : LoggedTokens[i] \in Operators})

\* The k-th request of the history and the message after it are a round trip:
\* a request from the coordinator to an agent, answered by that agent to the
\* coordinator with the result of its operation on the operands of the request.
RoundTrip(request, response) ==
    /\ request.msg_type = "operation"
    /\ request.sender = IO
    /\ request.receiver \in OperationAgents
    /\ response.msg_type = "result"
    /\ response.sender = request.receiver
    /\ response.receiver = IO
    /\ response.content
         = <<operation_func(request.receiver, request.content[1],
                            request.content[2]).v>>

\* C16: the history of an evaluation that returned is one round trip after
\* another and nothing else, one for each substitution: its length is twice the
\* number of operator tokens, and each agent got as many requests as the token
\* list has operators with its symbol.
C16_RoundTrips ==
    (pc = "done" /\ outcome.status = "value")
        => /\ Len(message_history) = 2 * OperatorTokens
           /\ \A k \in 1..OperatorTokens :
                  RoundTrip(message_history[2 * k - 1], message_history[2 * k])
           /\ \A a \in OperationAgents :
                  Requests(a) = Occurrences(LoggedTokens, symbol(a))

\* Witness of C16: 2+3*3 returned 11 after the round trip of the product and
\* then the round trip of the sum.
C16_Witness ==
    /\ pc = "done"
    /\ entry = <<"2", "+", "3", "*", "3">>
    /\ outcome.value = Rat(11, 1)
    /\ Len(message_history) = 4
    /\ message_history[1].receiver = "multiplicacion_agent"
    /\ message_history[4].content = <<Rat(11, 1)>>

\* The last message of the history, when it is a request that got no answer.
LastRequest == message_history[Len(message_history)]

\* C20, as claimed: calculate raises the "no response" error of
\* request_operation exactly when the agent it addressed raised instead of
\* answering.
C20_NoResponseWhenAgentRaised ==
    pc = "done"
        => (Unanswered # {} <=> outcome.err = "RuntimeError: no response")

\* C20, amended: calculate never raises the "no response" error; when the agent
\* addressed raised instead of answering, calculate raises the exception of
\* that agent's operation on the operands of the request.
C20_AgentErrorPropagates ==
    pc = "done"
        => /\ outcome.err # "RuntimeError: no response"
           /\ Unanswered # {}
                  => /\ outcome.status = "error"
                     /\ Unanswered = {LastRequest.receiver}
                     /\ ~operation_func(LastRequest.receiver, LastRequest.content[1],
                                        LastRequest.content[2]).ok
                     /\ outcome.err
                          = operation_func(LastRequest.receiver, LastRequest.content[1],
                                           LastRequest.content[2]).err

\* Witness of C20: 0**-2 raised the ZeroDivisionError of pow, which the power
\* agent did not answer.
C20_Witness ==
    /\ pc = "done"
    /\ entry = <<"0", "*", "*", "-", "2">>
    /\ Unanswered = {"potencia_agent"}
    /\ outcome.err = "ZeroDivisionError"

-----------------------------------------------------------------------------
(* C17 *)

\* The places of the messages the broker has handed out: call i, position j.
Deliveries ==
    UNION {{<<i, j>> : j \in 1..Len(delivered[i].messages)} :
           i \in 1..Len(delivered)}

\* The message handed out at a place.
Handed(d) == delivered[d[1]].messages[d[2]]

\* s is the beginning of t.
Prefix(s, t) == Len(s) <= Len(t) /\ SubSeq(t, 1, Len(s)) = s

\* C17: over any sequence of send_message, get_messages_for and clear_history
\* calls, a message is handed only to a caller asking for its receiver, no
\* message is handed out twice, a message handed out is no longer pending, and
\* the history loses nothing except by clear_history: a send appends the message
\* to it and a get leaves it as it is.
C17_DeliveredOnce ==
    /\ [](/\ \A d \in Deliveries : Handed(d).receiver = delivered[d[1]].to
          /\ \A d \in Deliveries : \A e \in Deliveries :
                 Handed(d) = Handed(e) => d = e
          /\ \A d \in Deliveries : \A k \in 1..Len(message_queue) :
                 message_queue[k] # Handed(d))
    /\ [][/\ pc' = "sent" => /\ Len(message_history') = Len(message_history) + 1
                             /\ Prefix(message_history, message_history')
                             /\ message_history'[Len(message_history')].content
                                    = <<sent'>>
          /\ pc' = "got" => message_history' = message_history
          /\ message_history' # message_history => pc' \in {"sent", "cleared"}]_vars

\* Two messages for the same receiver were handed out by two calls, one each,
\* both are still in the history, and a message for someone else is pending.
C17_Witness ==
    /\ Len(delivered) = 2
    /\ delivered[1].to = delivered[2].to
    /\ Len(delivered[1].messages) = 1
    /\ Len(delivered[2].messages) = 1
    /\ Len(message_history) = 3
    /\ Len(message_queue) = 1
    /\ message_queue[1].receiver # delivered[1].to

-----------------------------------------------------------------------------
(* C18 *)

\* The messages of a sequence are in the order they were sent.
InSendOrder(messages) ==
    \A j \in 1..Len(messages) : \A k \in 1..Len(messages) :
        j < k => messages[j].content[1] < messages[k].content[1]

\* The messages of a sequence, as a set.
Range(messages) == {messages[k] : k \in 1..Len(messages)}

\* C18: the broker is first in, first out. The pending queue is always in send
\* order, and so is every list get_messages_for returned; a call of
\* get_messages_for(id) returns all the pending messages addressed to id and
\* leaves all the others, so the ones returned come out oldest first and the ones
\* left keep their relative order.
C18_Fifo ==
    /\ [](/\ InSendOrder(message_queue)
          /\ \A i \in 1..Len(delivered) : InSendOrder(delivered[i].messages))
    /\ [][pc' = "got" /\ Len(delivered') = Len(delivered) + 1 =>
              /\ Range(delivered'[Len(delivered')].messages)
                     = {m \in Range(message_queue) :
                            m.receiver = delivered'[Len(delivered')].to}
              /\ Range(message_queue')
                     = {m \in Range(message_queue) :
                            m.receiver # delivered'[Len(delivered')].to}]_vars

\* One call returned the first and the third message sent, in that order, and
\* left the second, addressed to someone else, pending.
C18_Witness ==
    /\ Len(delivered) = 1
    /\ Len(delivered[1].messages) = 2
    /\ delivered[1].messages[1].content = <<1>>
    /\ delivered[1].messages[2].content = <<3>>
    /\ Len(message_queue) = 1
    /\ message_queue[1].content = <<2>>

-----------------------------------------------------------------------------
(* C19 *)

\* What the addressed agent's operation does with the operands of the request.
Applied == operation_func(Addressed, asked.operand1, asked.operand2)

\* The reply of the addressed agent to the request.
Reply == Message(Addressed, IO, <<Applied.v>>, "result")

\* The agent's step drained the request and nothing else.
Drained == [to |-> Addressed, messages |-> <<Request>>]

\* What request_operation, run in one piece, does with the request.
Whole ==
    request_operation(NewWorld, asked.operator, asked.operand1, asked.operand2)

\* C19: dispatch is one at a time. Through a request_operation the queue never
\* holds more than one message and is empty before and after it; after the send
\* it holds the request alone; the step of the addressed agent drains exactly
\* that request and, when its operation returns, leaves exactly its reply to the
\* coordinator; the coordinator then gets that reply alone and returns its
\* content, the result of the addressed agent's operation on the operands it
\* just sent; when the operation raises, the request is drained, nothing is
\* left and the coordinator gets the operation's exception. The statements
\* together do what request_operation does.
C19_OneAtATime ==
    /\ Len(message_queue) <= 1
    /\ pc \in {"idle", "returned", "raised"} => message_queue = <<>>
    /\ pc = "requested" => message_queue = <<Request>> /\ delivered = <<>>
    /\ pc = "stepped" =>
           /\ delivered = <<Drained>>
           /\ Applied.ok
           /\ message_queue = <<Reply>>
    /\ pc = "returned" =>
           /\ delivered = <<Drained, [to |-> IO, messages |-> <<Reply>>]>>
           /\ Applied.ok
           /\ outcome = [status |-> "value", value |-> Applied.v, err |-> "none"]
    /\ pc = "raised" =>
           IF Addressed = "None" THEN delivered = <<>>
           ELSE /\ delivered = <<Drained>>
                /\ ~Applied.ok
                /\ outcome = Thrown(Applied.err)
    /\ pc \in {"returned", "raised"} =>
           /\ World = Whole.w
           /\ Whole.ok = (pc = "returned")
           /\ Whole.ok => outcome.value = Whole.ret
           /\ ~Whole.ok => outcome.err = Whole.err

\* The coordinator asked the division agent for -3 / 2 and returned its reply,
\* -3/2, after the agent's step had drained the request.
C19_Witness ==
    /\ pc = "returned"
    /\ asked = [operator |-> <<"/">>, operand1 |-> Rat(-3, 1),
                operand2 |-> Rat(2, 1)]
    /\ delivered[1].to = "division_agent"
    /\ delivered[2].messages[1].sender = "division_agent"
    /\ outcome.value = Rat(-3, 2)
    /\ operations_performed["division_agent"] = 1

-----------------------------------------------------------------------------
(* The evaluation in steps and the evaluation in one piece. *)

\* What process_expression, run in one piece, does with the token list.
InOnePiece == Process(NewWorld, entry)

\* The evaluation run iteration by iteration ends in the state and with the
\* outcome of process_expression run in one piece.
StepsAgree ==
    pc = "done"
        => /\ World = InOnePiece.w
           /\ InOnePiece.ok = (outcome.status = "value")
           /\ InOnePiece.ok => outcome.value = InOnePiece.ret
           /\ ~InOnePiece.ok => outcome.err = InOnePiece.err

-----------------------------------------------------------------------------
(* C21 *)

\* What the agent of the last request does with its operands.
LastApplied ==
    operation_func(LastRequest.receiver, LastRequest.content[1],
                   LastRequest.content[2])

\* C21: an error aborts the evaluation at once. The iteration that raises sends
\* at most the one request its agent fails on and changes no counter; from then
\* to the end of the call nothing is sent and no counter changes. So while the
\* evaluation goes on every request in the history is answered, and after an
\* error the history is complete round trips followed, exactly when an agent
\* raised, by that agent's unanswered request, whose exception is the error.
C21_ErrorAborts ==
    /\ [](/\ pc = "evaluating" => Unanswered = {}
          /\ \A k \in 1..(Len(message_history) \div 2) :
                 RoundTrip(message_history[2 * k - 1], message_history[2 * k])
          /\ \A a \in OperationAgents : operations_performed[a] = Results(a)
          /\ Len(message_history) % 2 = 1
                 => /\ pc \in {"failing", "done"}
                    /\ LastRequest.msg_type = "operation"
                    /\ LastRequest.sender = IO
                    /\ ~LastApplied.ok
                    /\ outcome = Thrown(LastApplied.err))
    /\ [][/\ pc' = "failing"
               => /\ operations_performed' = operations_performed
                  /\ \/ message_history' = message_history
                     \/ /\ Len(message_history') = Len(message_history) + 1
                        /\ Prefix(message_history, message_history')
          /\ pc = "failing"
               => /\ pc' = "done"
                  /\ message_history' = message_history
                  /\ message_queue' = message_queue
                  /\ operations_performed' = operations_performed
                  /\ outcome' = outcome]_vars

\* Witness of C21: in 2-(2/0)-2 the division of the group raised; its request is
\* the only message, and neither subtraction was asked for.
C21_Witness ==
    /\ pc = "done"
    /\ entry = <<<<"2">>, <<"-">>, <<"(">>, <<"2">>, <<"/">>, <<"0">>, <<")">>,
                 <<"-">>, <<"2">>>>
    /\ outcome.err = "ValueError: division by zero"
    /\ Len(message_history) = 1
    /\ LastRequest.receiver = "division_agent"
    /\ operations_performed = NoStatistics

-----------------------------------------------------------------------------
(* C22 *)

\* The '(' of a token list.
Opens(tokens) == Cardinality({k \in 1..Len(tokens) : tokens[k] = LeftParen})

\* The step is within the innermost call, which stays in the same pass.
SamePass ==
    /\ pc' = "evaluating"
    /\ Len(stack') = Len(stack)
    /\ stack'[Len(stack')].stage = Top.stage

\* C22: the evaluation of every token list ends, returning or raising, as
\* process_expression run in one piece does. An iteration of a precedence pass
\* that stays in the pass either replaces three tokens by one, the list getting
\* exactly two tokens shorter with the index kept, or moves the index on by one
\* over an unchanged list; a group handed to an inner evaluation holds no '('; and
\* when the inner evaluation returns, the list of the call below has exactly one
\* '(' fewer and is shorter.
C22_Terminates ==
    /\ <>(pc = "done")
    /\ [](StepsAgree)
    /\ [][/\ (SamePass /\ Top.stage \in {"power", "product", "sum"})
               => \/ /\ Len(stack'[Len(stack')].tokens) = Len(Top.tokens) - 2
                     /\ stack'[Len(stack')].i = Top.i
                     /\ Len(message_history') = Len(message_history) + 2
                  \/ /\ stack'[Len(stack')].tokens = Top.tokens
                     /\ stack'[Len(stack')].i = Top.i + 1
                     /\ message_history' = message_history
          /\ (pc' = "evaluating" /\ Len(stack') = Len(stack) + 1)
               => /\ Top.stage = "parentheses"
                  /\ Opens(stack'[Len(stack')].tokens) = 0
                  /\ Len(stack'[Len(stack')].tokens) < Len(Top.tokens)
          /\ (pc' = "evaluating" /\ Len(stack') = Len(stack) - 1)
               => /\ Opens(stack'[Len(stack')].tokens)
                        = Opens(stack[Len(stack')].tokens) - 1
                  /\ Len(stack'[Len(stack')].tokens) < Len(stack[Len(stack')].tokens)
                  /\ stack'[Len(stack')].stage = "parentheses"
          /\ Len(stack') <= 2]_vars

\* Witness of C22: (2-0)/(2/2) has ended with 2 after two groups and three
\* replacements.
C22_Witness ==
    /\ pc = "done"
    /\ entry = <<<<"(">>, <<"2">>, <<"-">>, <<"0">>, <<")">>, <<"/">>,
                 <<"(">>, <<"2">>, <<"/">>, <<"2">>, <<")">>>>
    /\ outcome.status = "value"
    /\ outcome.value = Rat(2, 1)
    /\ Len(message_history) = 6

-----------------------------------------------------------------------------
(* C23 *)

\* C23, as claimed: the agents of sum, subtraction, product and power return a
\* number for every pair of operands, so a request that an agent fails on is a
\* request to the division agent.
C23_OnlyDivisionFails ==
    (pc = "raised" /\ Addressed \in OperationAgents)
        => Addressed = "division_agent"

-----------------------------------------------------------------------------
(* C24 *)

\* C24: request_operation with a symbol operator_map does not hold raises the
\* unsupported-operator error in its first step, which leaves the queue, the
\* history, the counters and the log as they were; no agent is stepped, and
\* nothing else happens. request_operation run in one piece does the same.
C24_UnsupportedOperator ==
    /\ [](Addressed = "None"
            => /\ pc \in {"idle", "raised"}
               /\ delivered = <<>>
               /\ World = NewWorld
               /\ Whole = Raise("ValueError: unsupported operator", NewWorld)
               /\ pc = "raised" => outcome = Thrown("ValueError: unsupported operator"))
    /\ [][Addressed = "None"
            => /\ pc = "idle"
               /\ pc' = "raised"
               /\ message_queue' = message_queue
               /\ message_history' = message_history
               /\ operations_performed' = operations_performed
               /\ log_messages' = log_messages
               /\ delivered' = delivered]_vars

\* Witness of C24: the request for 2 % 2 has raised.
C24_Witness ==
    /\ pc = "raised"
    /\ asked = [operator |-> <<"%">>, operand1 |-> Rat(2, 1), operand2 |-> Rat(2, 1)]
    /\ outcome.err = "ValueError: unsupported operator"
    /\ message_history = <<>>

-----------------------------------------------------------------------------
(* C25 *)

\* The operator symbols of the requests in the history, in the order sent.
RECURSIVE SymbolsOf(_)
SymbolsOf(messages) ==
    IF messages = <<>> THEN <<>>
    ELSE IF Head(messages).msg_type = "operation"
    THEN <<symbol(Head(messages).receiver)>> \o SymbolsOf(Tail(messages))
    ELSE SymbolsOf(Tail(messages))

\* The operators of the token list, tier by tier and left to right in each tier.
TierOrder ==
    SelectSeq(LoggedTokens, LAMBDA t : t = <<"*", "*">>)
      \o SelectSeq(LoggedTokens, LAMBDA t : t \in {<<"*">>, <<"/">>})
      \o SelectSeq(LoggedTokens, LAMBDA t : t \in {<<"+">>, <<"-">>})

\* C25: when the token list has no parenthesis, the requests of the evaluation
\* are sent tier by tier, the powers first, then the products and quotients,
\* then the sums and differences, and left to right within a tier: their
\* operators are those of the token list in that order, all of them when the
\* evaluation returned and the first of them when it raised.
C25_TierOrder ==
    (/\ pc = "done"
     /\ Occurrences(LoggedTokens, <<"(">>) = 0
     /\ Occurrences(LoggedTokens, <<")">>) = 0)
        => /\ Prefix(SymbolsOf(message_history), TierOrder)
           /\ outcome.status = "value" => SymbolsOf(message_history) = TierOrder

\* Witness of C25: 2-3/2*3**2 asked for the power, the quotient, the product and
\* the difference, in this order, and returned -11.5.
C25_Witness ==
    /\ pc = "done"
    /\ entry = <<"2", "-", "3", "/", "2", "*", "3", "*", "*", "2">>
    /\ SymbolsOf(message_history) = <<<<"*", "*">>, <<"/">>, <<"*">>, <<"-">>>>
    /\ outcome.value = Rat(-23, 2)

-----------------------------------------------------------------------------
(* C26 *)

\* The positions of the operators of the token list.
OperatorPositions == {p \in 1..Len(LoggedTokens) : LoggedTokens[p] \in Operators}

\* The positions of the '(' of the token list.
OpenPositions == {p \in 1..Len(LoggedTokens) : LoggedTokens[p] = <<"(">>}

\* The '(' of the innermost group around position p, 0 outside every group.
Enclosing(p) ==
    Last({o \in 1..(p - 1) :
             /\ LoggedTokens[o] = <<"(">>
             /\ Depth(LoggedTokens, o) = Depth(LoggedTokens, p)})

\* The tier of the operator at p: 1 for power, 2 for product, 3 for sum.
Tier(p) ==
    IF LoggedTokens[p] = <<"*", "*">> THEN 1
    ELSE IF LoggedTokens[p] \in {<<"*">>, <<"/">>} THEN 2 ELSE 3

\* The operator at p is asked for before the one at q: its group opens further
\* right; or they are in the same group and p is of an earlier tier, or of the
\* same tier and further left.
Before(p, q) ==
    \/ Enclosing(p) > Enclosing(q)
    \/ /\ Enclosing(p) = Enclosing(q)
       /\ \/ Tier(p) < Tier(q)
          \/ Tier(p) = Tier(q) /\ p < q

\* The operators at the positions S, in the order they are asked for.
RECURSIVE InOrder(_)
InOrder(S) ==
    IF S = {} THEN <<>>
    ELSE <<LoggedTokens[CHOOSE p \in S : \A q \in S \ {p} : Before(p, q)]>>
           \o InOrder(S \ {CHOOSE p \in S : \A q \in S \ {p} : Before(p, q)})

\* The '(' positions from the right to the left.
RECURSIVE RightToLeft(_)
RightToLeft(S) ==
    IF S = {} THEN <<>> ELSE <<Last(S)>> \o RightToLeft(S \ {Last(S)})

\* The tokens directly inside the group that opens at o, each inner group
\* counted as one: the positions between the '(' and its ')' at the depth of
\* the group.
Items(o) ==
    Cardinality({p \in (o + 1)..Len(LoggedTokens) :
                    /\ Depth(LoggedTokens, p) = Depth(LoggedTokens, o)
                    /\ \A q \in (o + 1)..p :
                           Depth(LoggedTokens, q) >= Depth(LoggedTokens, o)})

\* The groups the evaluation took up, as it logged them.
GroupLines == SelectSeq(log_messages, LAMBDA l : l.tag = "parenthesis")

\* C26: in a token list with balanced parentheses the groups are taken up from
\* the right to the left, which puts a group after the groups inside it and
\* before its siblings to the left; the requests of a group are sent when it is
\* taken up, so before any request of the level around it. The operators of the
\* requests are those of the token list in this order (all of them when the
\* evaluation returned), and when a group is taken up each group inside it has
\* become exactly one token: the group logged holds no parenthesis and as many
\* tokens as it has items.
C26_InnermostRightmost ==
    (pc = "done" /\ Balanced(LoggedTokens))
        => /\ Prefix(SymbolsOf(message_history), InOrder(OperatorPositions))
           /\ outcome.status = "value"
                  => /\ SymbolsOf(message_history) = InOrder(OperatorPositions)
                     /\ Len(GroupLines) = Cardinality(OpenPositions)
           /\ Len(GroupLines) <= Cardinality(OpenPositions)
           /\ \A k \in 1..Len(GroupLines) :
                  /\ Len(GroupLines[k].data) = Items(RightToLeft(OpenPositions)[k])
                  /\ \A j \in 1..Len(GroupLines[k].data) :
                         GroupLines[k].data[j] \notin {LeftParen, RightParen}

\* Witness of C26: in (2+3)*(3-2) the difference of the right group was asked for
\* first, then the sum of the left group, then the product.
C26_Witness ==
    /\ pc = "done"
    /\ entry = <<"(", "2", "+", "3", ")", "*", "(", "3", "-", "2", ")">>
    /\ SymbolsOf(message_history) = <<<<"-">>, <<"+">>, <<"*">>>>
    /\ outcome.value = Rat(5, 1)

-----------------------------------------------------------------------------
(* C27 *)

\* What calculate gives for the entry on a new model.
Fresh == calculate(NewWorld, entry)

\* C27: the queue is empty before the first calculate and whenever a calculate
\* has returned or raised, a failed division included; so each calculate, which
\* does not clear the queue, starts with an empty one, and what it gives its
\* caller is what it gives on a new model: no message of an earlier evaluation
\* is taken for a response.
C27_QueueEmpty ==
    /\ message_queue = <<>>
    /\ pc = "done"
           => LET alone == Fresh
              IN  /\ alone.ok = (outcome.status = "value")
                  /\ alone.ok => outcome.value = alone.ret
                  /\ ~alone.ok => outcome.err = alone.err

\* Witness of C27: after operations of earlier calls, 2+3/0 has failed on its
\* division; the request is in the history and nothing is pending.
C27_Witness ==
    /\ pc = "done"
    /\ entry = <<"2", "+", "3", "/", "0">>
    /\ outcome.err = "ValueError: division by zero"
    /\ Len(message_history) = 1
    /\ message_queue = <<>>
    /\ Total(before) >= 2

-----------------------------------------------------------------------------
(* C28 *)

\* The '-' of the pattern's matches that are in fold position with a '(' next.
SignedGroups ==
    {i \in 1..(Len(RawTokens) - 1) :
        FoldPosition(RawTokens, i) /\ RawTokens[i + 1] = <<"(">>}

\* The '-' of the token list that have a '(' next.
MinusBeforeGroup ==
    {j \in 1..(Len(LoggedTokens) - 1) :
        LoggedTokens[j] = <<"-">> /\ LoggedTokens[j + 1] = <<"(">>}

\* C28: a '-' first, or after an operator or '(', that has a '(' next is not
\* folded: it stays a token of its own before the '('. calculate raises for every
\* such expression; it returns neither the negated group nor anything else.
C28_SignedGroupFails ==
    (pc = "done" /\ SignedGroups # {})
        => /\ Cardinality(MinusBeforeGroup) >= Cardinality(SignedGroups)
           /\ outcome.status = "error"

\* Witness of C28: -(2+3) raised on its '-' after the sum of the group had been
\* asked for and counted.
C28_Witness ==
    /\ pc = "done"
    /\ entry = <<"-", "(", "2", "+", "3", ")">>
    /\ LoggedTokens = <<<<"-">>, <<"(">>, <<"2">>, <<"+">>, <<"3">>, <<")">>>>
    /\ outcome.err = "ValueError: operator in invalid position"
    /\ operations_performed["suma_agent"] = 1

-----------------------------------------------------------------------------
(* C29 *)

\* The entry is -a**b for two numerals a and b.
IsSignedPower ==
    /\ Len(RawTokens) = 4
    /\ RawTokens[1] = <<"-">>
    /\ IsNumeral(RawTokens[2])
    /\ RawTokens[3] = <<"*", "*">>
    /\ IsNumeral(RawTokens[4])

\* What the power agent does with -a and b.
PowerOfNegative ==
    operation_func("potencia_agent", Float(Txt(<<"-">> \o RawTokens[2])).v,
                   Float(Txt(RawTokens[4])).v)

\* C29: in -a**b the sign is folded into the literal before any operator is
\* applied. The token list is -a, **, b; exactly one request is sent, to the
\* power agent with the operands -a and b; and calculate gives what (-a)**b
\* gives: the number the power agent returned, or the exception it raised.
C29_SignBindsTighter ==
    (pc = "done" /\ IsSignedPower)
        => /\ LoggedTokens = <<(<<"-">> \o RawTokens[2]), <<"*", "*">>, RawTokens[4]>>
           /\ SymbolsOf(message_history) = <<<<"*", "*">>>>
           /\ message_history[1].receiver = "potencia_agent"
           /\ message_history[1].content
                  = <<Float(Txt(<<"-">> \o RawTokens[2])).v, Float(Txt(RawTokens[4])).v>>
           /\ PowerOfNegative.ok
                  => /\ Len(message_history) = 2
                     /\ message_history[2].content = <<PowerOfNegative.v>>
                     /\ IF PowerOfNegative.v.kind = "cx"
                        THEN outcome.status = "error"
                        ELSE outcome = [status |-> "value",
                                        value |-> PowerOfNegative.v, err |-> "none"]
           /\ ~PowerOfNegative.ok
                  => /\ Len(message_history) = 1
                     /\ outcome = Thrown(PowerOfNegative.err)

\* Witness of C29: -2**2 asked the power agent for (-2)**2 and returned 4.
C29_Witness ==
    /\ pc = "done"
    /\ entry = <<"-", "2", "*", "*", "2">>
    /\ message_history[1].content = <<Rat(-2, 1), Rat(2, 1)>>
    /\ outcome.value = Rat(4, 1)
    /\ operations_performed["potencia_agent"] = 1

====
